---- MODULE Spec2Model ----
(***************************************************************************)
(* A model of the media inspection and trim engine of clip-wave            *)
(* (src/src-tauri/src/main.rs): the process-wide probe cache and the four  *)
(* probe commands that read and write it, the classification of the        *)
(* inspector's stream list, and the trim command with its encoder          *)
(* argument list.                                                          *)
(*                                                                         *)
(* Three specifications share the variables:                               *)
(*   Spec        the probe commands running concurrently over the cache    *)
(*   SpecStreams the stream classification applied to bounded stream lists *)
(*   SpecTrim    one trim_media execution, stage by stage                  *)
(***************************************************************************)
EXTENDS Integers, Sequences, FiniteSets, TLC

VARIABLES
  \* ---- probe cache and probe commands (Spec) ----
  windows,      \* the build has the native (Media Foundation) backend
  media,        \* per file: what the file is and what the backends report
  cache,        \* probe_cache(): fingerprint -> CachedProbeResult
  pc,           \* per caller: position inside the running command
  cfile,        \* per caller: input_path of the running command
  clocal,       \* per caller: locals of the running command
  result,       \* what the command that returned last returned
  spawns,       \* per caller: inspector processes spawned by the running command
  ncalls,       \* commands started so far
  \* ---- stream classification (SpecStreams) ----
  sin,          \* the stream list the inspector printed
  sout,         \* the outcome of classifying it
  \* ---- trim (SpecTrim) ----
  tin,          \* the arguments of the trim_media call and its environment
  tpc,          \* the stage trim_media is in
  tloc,         \* locals of trim_media
  tobs,         \* what the execution did: processes spawned, files, events, result
  \* ---- a child process and its two output pipes (SpecPipes) ----
  xop,          \* the operation that spawned the child
  xpc,          \* where the operation is
  xchild,       \* the child: what it has left to write, what it is doing
  xpipe,        \* per stream: chunks written and not yet read
  xthreads,     \* per stream: the drain thread, if one was started
  \* ---- lossless preflight and the keyframe locator (SpecPreflight) ----
  kin,          \* the arguments of the call and what the inspector would say
  kpc,          \* the stage the preflight is in
  kloc,         \* locals of lossless_preflight_sync and find_surrounding_keyframes
  kobs,         \* the inspector queries issued, and the result
  \* ---- binary resolution (SpecResolve) ----
  rin,          \* the hint and the directories the machine has
  rout,         \* what the operation returned
  \* ---- rotation normalisation (SpecRotation) ----
  nin,          \* the raw rotation value
  nout,         \* what normalisation and the filter choice made of it
  \* ---- the progress loop of a trim (SpecProgress) ----
  gin,          \* duration_us of the trim
  gpc,          \* where the loop is
  gloc,         \* last_pct
  gobs,         \* the line read last and the events emitted so far
  \* ---- the cache lock and the probe commands' steps (SpecLock) ----
  lholder,      \* the caller holding the cache lock, "" when it is free
  lpc,          \* per caller: the step of its probe command and how far into it
  \* ---- threads (SpecTrim, SpecPreflight) ----
  othread       \* the thread the body of the running command executes on

probeVars == <<windows, media, cache, pc, cfile, clocal, result, spawns, ncalls>>
streamVars == <<sin, sout>>
trimVars == <<tin, tpc, tloc, tobs>>
pipeVars == <<xop, xpc, xchild, xpipe, xthreads>>
preflightVars == <<kin, kpc, kloc, kobs>>
resolveVars == <<rin, rout>>
rotationVars == <<nin, nout>>
progressVars == <<gin, gpc, gloc, gobs>>
lockVars == <<lholder, lpc>>
moreVars == <<rotationVars, progressVars, lockVars>>
threadVars == <<othread>>
extraVars == <<pipeVars, preflightVars, resolveVars, moreVars, threadVars>>
vars == <<probeVars, streamVars, trimVars, extraVars>>

\* values the variables of the other specifications rest at
PipesIdle ==
  xop = "" /\ xpc = "off" /\ xchild = <<>> /\ xpipe = <<>> /\ xthreads = <<>>
PreflightIdle == kin = <<>> /\ kpc = "off" /\ kloc = <<>> /\ kobs = <<>>
ResolveIdle == rin = <<>> /\ rout = <<>>
RotationIdle == nin = 0 /\ nout = <<>>
ProgressIdle == gin = 0 /\ gpc = "off" /\ gloc = 0 /\ gobs = <<>>
LockIdle == lholder = "" /\ lpc = <<>>
MoreIdle == RotationIdle /\ ProgressIdle /\ LockIdle
ThreadIdle == othread = ""
ExtraIdle == PipesIdle /\ PreflightIdle /\ ResolveIdle /\ MoreIdle

-----------------------------------------------------------------------------
\* Bounds of the model.

\* commands started in one behaviour of Spec
MaxCalls == 2
\* length of the stream lists SpecStreams classifies
MaxStreams == 3
\* largest global stream index in a classified list
MaxIndex == 3

-----------------------------------------------------------------------------
\* Option<T>

None == [some |-> FALSE, v |-> 0]
Some(x) == [some |-> TRUE, v |-> x]

-----------------------------------------------------------------------------
\* Stream classification: parse_streams_from_ffprobe_json and probe_media.

CodecTypes == {"audio", "subtitle", "video"}

\* one element of the "streams" array of the inspector's JSON, with its integer
\* index (an element without one fails the parse: outcome "bad_json" below)
RawStream(i, t) == [index |-> i, codec_type |-> t]

\* AudioStreamInfo / SubtitleStreamInfo as pushed by the loop: order 0
StreamInfo(raw) == [order |-> 0, index |-> raw.index, codec_type |-> raw.codec_type]

\* the streams of one codec type, in the order the inspector printed them
RECURSIVE SelectType(_, _)
SelectType(streams, t) ==
  IF streams = <<>> THEN <<>>
  ELSE LET rest == SelectType(Tail(streams), t)
       IN IF Head(streams).codec_type = t
          THEN <<StreamInfo(Head(streams))>> \o rest
          ELSE rest

\* x placed behind every element whose index is not larger (keeps a stable order)
RECURSIVE InsertByIndex(_, _)
InsertByIndex(x, s) ==
  IF s = <<>> THEN <<x>>
  ELSE IF Head(s).index <= x.index
       THEN <<Head(s)>> \o InsertByIndex(x, Tail(s))
       ELSE <<x>> \o s

\* Vec::sort_by(|a, b| a.index.cmp(&b.index)): a stable sort by global index
RECURSIVE SortByIndex(_)
SortByIndex(s) ==
  IF s = <<>> THEN <<>>
  ELSE InsertByIndex(s[Len(s)], SortByIndex(SubSeq(s, 1, Len(s) - 1)))

\* AssignOrders counting from 1
AssignOrdersFromOne(s) == [i \in 1..Len(s) |-> [s[i] EXCEPT !.order = i]]

\* for (i, s) in list.iter_mut().enumerate() { s.order = i }
AssignOrders(s) == [i \in 1..Len(s) |-> [s[i] EXCEPT !.order = i - 1]]

\* Ok((audio_streams, subtitle_streams)) of parse_streams_from_ffprobe_json
ParseStreams(streams) ==
  [audio |-> AssignOrders(SortByIndex(SelectType(streams, "audio"))),
   subs  |-> AssignOrders(SortByIndex(SelectType(streams, "subtitle")))]

-----------------------------------------------------------------------------
\* The world of the probe commands.

Files == {"f1", "f2"}
Callers == {"c1", "c2"}

\* what win_mf::probe_duration_seconds / probe_audio_streams return for a file
MfErr == [ok |-> FALSE, val |-> None, n |-> 0]
MfDuration(opt) == [ok |-> TRUE, val |-> opt, n |-> 0]
MfAudio(count) == [ok |-> TRUE, val |-> None, n |-> count]

\* A file as the backends see it. duration is the inspector's format=duration
\* entry (None stands for "N/A" or no entry), streams its "streams" array.
\* FullMovie is read by both backends; VideoOnly has no audio and no subtitle
\* stream and is in a format the native backend cannot open; NoDuration has no
\* duration either backend can tell; MissingFile is not a regular file.
FullMovie ==
  [is_file |-> TRUE, duration |-> Some(12),
   streams |-> <<RawStream(0, "video"), RawStream(3, "audio"),
                 RawStream(2, "subtitle"), RawStream(1, "audio")>>,
   mf_duration |-> MfDuration(Some(12)), mf_audio |-> MfAudio(2)]
VideoOnly ==
  [is_file |-> TRUE, duration |-> Some(7),
   streams |-> <<RawStream(0, "video")>>,
   mf_duration |-> MfErr, mf_audio |-> MfErr]
NoDuration ==
  [is_file |-> TRUE, duration |-> None,
   streams |-> <<RawStream(0, "video"), RawStream(1, "subtitle")>>,
   mf_duration |-> MfDuration(None), mf_audio |-> MfAudio(0)]
MissingFile ==
  [is_file |-> FALSE, duration |-> None, streams |-> <<>>,
   mf_duration |-> MfErr, mf_audio |-> MfErr]
Profiles == {FullMovie, VideoOnly, NoDuration, MissingFile}

\* the ffmpeg_bin_dir argument: empty, a directory holding both executables,
\* or a directory validate_ffmpeg_bin_dir rejects
Hints == {"", "good_dir", "bad_dir"}

\* validate_ffmpeg_bin_dir(hint).is_ok()
HintOk(hint) == hint # "bad_dir"

\* ensure_input_file_exists(path).is_ok()
InputOk(f) == media[f].is_file

-----------------------------------------------------------------------------
\* The probe cache.

\* no entry under the key
NoEntry ==
  [present |-> FALSE, has_duration |-> FALSE, has_tracks |-> FALSE,
   has_subtitles |-> FALSE, duration_seconds |-> None,
   audio_streams |-> <<>>, subtitle_streams |-> <<>>, ffprobe_runner |-> ""]

\* the record each probe passes to entry(cache_key).or_insert(..)
FreshEntry(runner) ==
  [present |-> TRUE, has_duration |-> FALSE, has_tracks |-> FALSE,
   has_subtitles |-> FALSE, duration_seconds |-> None,
   audio_streams |-> <<>>, subtitle_streams |-> <<>>, ffprobe_runner |-> runner]

\* guard.entry(cache_key).or_insert(fresh)
EntryOrInsert(f, runner) == IF cache[f].present THEN cache[f] ELSE FreshEntry(runner)

\* parse_duration_from_ffprobe_text: the text is a number or it is not
ParseDurationText(text) == IF text.kind = "number" THEN Some(text.v) ELSE None

\* the inspector's plain-text answer to the duration-only query
DurationTextOf(f) ==
  IF media[f].duration.some
  THEN [kind |-> "number", v |-> media[f].duration.v]
  ELSE [kind |-> "na", v |-> 0]

\* the inspector's JSON answer to the combined query of probe_media
InspectorJson(f) == [format_duration |-> DurationTextOf(f), streams |-> media[f].streams]

\* json.get("format").get("duration").as_str().parse::<f64>().ok()
ParseDurationJson(json) ==
  IF json.format_duration.kind = "number" THEN Some(json.format_duration.v) ELSE None

\* the inspector's "streams" array under -select_streams a / s
RECURSIVE RawOfType(_, _)
RawOfType(streams, t) ==
  IF streams = <<>> THEN <<>>
  ELSE IF Head(streams).codec_type = t
       THEN <<Head(streams)>> \o RawOfType(Tail(streams), t)
       ELSE RawOfType(Tail(streams), t)

\* the audio query of probe_tracks, parsed (lines 1395-1396)
PtParseAudio(streams) == ParseStreams(RawOfType(streams, "audio")).audio

\* the subtitle query of probe_tracks and probe_subtitles, parsed
\* (lines 1398-1399, 1560)
PtParseSubs(streams) == ParseStreams(RawOfType(streams, "subtitle")).subs

\* the list win_mf::probe_audio_streams builds: dense orders, index -1
MfAudioList(n) == [i \in 1..n |-> [order |-> i - 1, index |-> -1, codec_type |-> "audio"]]

-----------------------------------------------------------------------------
\* What a command returns. hint_ok tells whether the ffmpeg_bin_dir the command
\* was called with passes validate_ffmpeg_bin_dir; spawned counts the inspector
\* processes the command spawned.

NoResult ==
  [op |-> "", file |-> "", hint_ok |-> TRUE, ok |-> FALSE, cache_hit |-> FALSE, err |-> "",
   err_bytes |-> 0, duration |-> None, audio |-> <<>>, subs |-> <<>>, spawned |-> 0]
ErrResult(o, f, h, e) == [NoResult EXCEPT !.op = o, !.file = f, !.hint_ok = h, !.err = e]

\* What the inspector wrote to stderr before it exited: `ws` bytes of
\* surrounding whitespace and `text` bytes between them.
Stderr(ws, text) == [ws |-> ws, text |-> text]
\* the head stderr_head_text keeps for the debug record
HeadLimit == 200
Stderrs == {Stderr(1, 0), Stderr(1, HeadLimit), Stderr(0, HeadLimit + 1)}

\* String::from_utf8_lossy(&stderr_buf).trim(): the bytes of stderr the text
\* "ffprobe failed: {stderr}" carries
FailedText(stderr) == stderr.text

\* the Err a run with outcome o returns; stderr goes into the text of a
\* non-zero exit only
RunError(op, f, o, stderr) ==
  [ErrResult(op, f, TRUE, o) EXCEPT
     !.err_bytes = IF o = "nonzero" THEN FailedText(stderr) ELSE 0]
OkResult(o, f, h, hit, d, a, s) ==
  [NoResult EXCEPT !.op = o, !.file = f, !.hint_ok = h, !.ok = TRUE, !.cache_hit = hit,
                   !.duration = d, !.audio = a, !.subs = s]

NoLocal == [audio |-> <<>>, subs |-> <<>>]

\* the command of caller c returns r, having spawned n inspector processes
ReturnWith(c, r, n) ==
  /\ pc' = [pc EXCEPT ![c] = "idle"]
  /\ result' = [r EXCEPT !.spawned = n]
  /\ clocal' = [clocal EXCEPT ![c] = NoLocal]
  /\ spawns' = [spawns EXCEPT ![c] = 0]

\* the command of caller c returns r without spawning a further process
Return(c, r) == ReturnWith(c, r, spawns[c])

\* caller c moves on to position p, having spawned n further processes
GotoWith(c, p, n) ==
  /\ pc' = [pc EXCEPT ![c] = p]
  /\ spawns' = [spawns EXCEPT ![c] = @ + n]
  /\ UNCHANGED result

\* caller c starts a command on file f
Start(c, f) ==
  /\ pc[c] = "idle"
  /\ ncalls < MaxCalls
  /\ ncalls' = ncalls + 1
  /\ cfile' = [cfile EXCEPT ![c] = f]

\* outcomes of running the inspector: Command::spawn failing, a stream read
\* failing, a non-zero exit, output that does not parse as JSON
TextRunOutcomes == {"ok", "not_found", "read_err", "nonzero"}
JsonRunOutcomes == {"ok", "not_found", "nonzero", "bad_json"}
MediaRunOutcomes == {"ok", "not_found", "read_err", "nonzero", "bad_json"}

\* processes a run with outcome o has spawned
Spawned(o) == IF o = "not_found" THEN 0 ELSE 1

\* variables of the other specifications
others == <<windows, media, sin, sout, tin, tpc, tloc, tobs, extraVars>>

-----------------------------------------------------------------------------
\* probe_duration

\* the cache write of probe_duration's native path (lines 989-1013)
PdNativeWrite(f, d) ==
  [EntryOrInsert(f, "mf") EXCEPT
     !.has_duration = TRUE, !.duration_seconds = d, !.ffprobe_runner = "mf"]

\* a write that sets the flag whatever was parsed
PdWriteFlagAlways(f, d) ==
  [EntryOrInsert(f, "direct") EXCEPT
     !.has_duration = TRUE, !.duration_seconds = d, !.ffprobe_runner = "direct"]

\* the cache write of probe_duration's inspector path (lines 1162-1186)
PdWrite(f, d) ==
  [EntryOrInsert(f, "direct") EXCEPT
     !.has_duration = d.some, !.duration_seconds = d, !.ffprobe_runner = "direct"]

\* entry: the cache lookup under the lock, then ensure_input_file_exists,
\* validate_ffmpeg_bin_dir and the resolution of the binaries (lines 885-944)
PdEnter(c) ==
  \E f \in Files, h \in Hints :
    /\ Start(c, f)
    /\ IF cache[f].present /\ cache[f].has_duration
       THEN Return(c, OkResult("probe_duration", f, HintOk(h), TRUE, cache[f].duration_seconds, <<>>, <<>>))
       ELSE IF ~InputOk(f) THEN Return(c, ErrResult("probe_duration", f, HintOk(h), "input"))
       ELSE IF ~HintOk(h) THEN Return(c, ErrResult("probe_duration", f, HintOk(h), "hint"))
       ELSE /\ GotoWith(c, IF windows THEN "pd_native" ELSE "pd_run", 0)
            /\ UNCHANGED clocal
    /\ UNCHANGED <<cache, others>>

\* a native backend whose failure is returned to the caller
PdNativeStrict(c) ==
  /\ pc[c] = "pd_native"
  /\ LET mf == media[cfile[c]].mf_duration
     IN IF mf.ok /\ mf.val.some
        THEN /\ cache' = [cache EXCEPT ![cfile[c]] = PdNativeWrite(cfile[c], mf.val)]
             /\ Return(c, OkResult("probe_duration", cfile[c], TRUE, FALSE, mf.val, <<>>, <<>>))
        ELSE /\ Return(c, ErrResult("probe_duration", cfile[c], TRUE, "native"))
             /\ UNCHANGED cache
  /\ UNCHANGED <<cfile, ncalls, others>>

\* the native backend, tried first on its platform (lines 946-1018)
PdNative(c) ==
  /\ pc[c] = "pd_native"
  /\ LET mf == media[cfile[c]].mf_duration
     IN IF mf.ok /\ mf.val.some
        THEN /\ cache' = [cache EXCEPT ![cfile[c]] = PdNativeWrite(cfile[c], mf.val)]
             /\ Return(c, OkResult("probe_duration", cfile[c], TRUE, FALSE, mf.val, <<>>, <<>>))
        ELSE /\ GotoWith(c, "pd_run", 0)
             /\ UNCHANGED <<cache, clocal>>
  /\ UNCHANGED <<cfile, ncalls, others>>

\* the inspector spawned, its two streams drained, its exit awaited
\* (lines 1020-1120)
PdRun(c) ==
  /\ pc[c] = "pd_run"
  /\ \E o \in TextRunOutcomes :
       IF o = "ok"
       THEN /\ GotoWith(c, "pd_store", 1)
            /\ UNCHANGED clocal
       ELSE \E stderr \in Stderrs :
              ReturnWith(c, RunError("probe_duration", cfile[c], o, stderr), spawns[c] + Spawned(o))
  /\ UNCHANGED <<cache, cfile, ncalls, others>>

\* parse the text, write the cache under the lock, return (lines 1122-1188)
PdStore(c) ==
  /\ pc[c] = "pd_store"
  /\ LET d == ParseDurationText(DurationTextOf(cfile[c]))
     IN /\ cache' = [cache EXCEPT ![cfile[c]] = PdWrite(cfile[c], d)]
        /\ Return(c, OkResult("probe_duration", cfile[c], TRUE, FALSE, d, <<>>, <<>>))
  /\ UNCHANGED <<cfile, ncalls, others>>

-----------------------------------------------------------------------------
\* probe_tracks

\* the cache write of probe_tracks' native path (lines 1278-1301)
PtNativeWrite(f, audio) ==
  [EntryOrInsert(f, "mf") EXCEPT
     !.audio_streams = audio, !.has_tracks = TRUE, !.ffprobe_runner = "mf"]

\* PtWrite as a whole-record insert: what the key held is dropped
PtWriteInsert(f, audio, subs) ==
  [FreshEntry("direct") EXCEPT
     !.audio_streams = audio, !.subtitle_streams = subs,
     !.has_tracks = TRUE, !.has_subtitles = TRUE]

\* the cache write of probe_tracks' inspector path (lines 1413-1437)
PtWrite(f, audio, subs) ==
  [EntryOrInsert(f, "direct") EXCEPT
     !.audio_streams = audio, !.subtitle_streams = subs,
     !.has_tracks = TRUE, !.has_subtitles = TRUE, !.ffprobe_runner = "direct"]

\* entry: the cache lookup under the lock, then ensure_input_file_exists,
\* validate_ffmpeg_bin_dir and the resolution of the binaries (lines 1196-1240)
PtEnter(c) ==
  \E f \in Files, h \in Hints :
    /\ Start(c, f)
    /\ IF cache[f].present /\ cache[f].has_tracks
       THEN Return(c, OkResult("probe_tracks", f, HintOk(h), TRUE, None,
                               cache[f].audio_streams, cache[f].subtitle_streams))
       ELSE IF ~InputOk(f) THEN Return(c, ErrResult("probe_tracks", f, HintOk(h), "input"))
       ELSE IF ~HintOk(h) THEN Return(c, ErrResult("probe_tracks", f, HintOk(h), "hint"))
       ELSE /\ GotoWith(c, IF windows THEN "pt_native" ELSE "pt_audio", 0)
            /\ UNCHANGED clocal
    /\ UNCHANGED <<cache, others>>

\* the native audio probe, then the cached subtitles read under the lock
\* (lines 1242-1254)
PtNative(c) ==
  /\ pc[c] = "pt_native"
  /\ LET mf == media[cfile[c]].mf_audio
         e == cache[cfile[c]]
     IN IF mf.ok
        THEN /\ GotoWith(c, "pt_native_store", 0)
             /\ clocal' = [clocal EXCEPT ![c] =
                  [audio |-> MfAudioList(mf.n),
                   subs |-> IF e.present /\ e.has_subtitles THEN e.subtitle_streams ELSE <<>>]]
        ELSE /\ GotoWith(c, "pt_audio", 0)
             /\ UNCHANGED clocal
  /\ UNCHANGED <<cache, cfile, ncalls, others>>

\* the native path's cache write under the lock, and its return (lines 1278-1313)
PtNativeStore(c) ==
  /\ pc[c] = "pt_native_store"
  /\ cache' = [cache EXCEPT ![cfile[c]] = PtNativeWrite(cfile[c], clocal[c].audio)]
  /\ Return(c, OkResult("probe_tracks", cfile[c], TRUE, FALSE, None, clocal[c].audio, clocal[c].subs))
  /\ UNCHANGED <<cfile, ncalls, others>>

\* a first query that stores its audio list before the second query runs
PtAudioStoring(c) ==
  /\ pc[c] = "pt_audio"
  /\ \E o \in JsonRunOutcomes :
       IF o = "ok"
       THEN /\ GotoWith(c, "pt_subs", 1)
            /\ clocal' = [clocal EXCEPT ![c].audio = PtParseAudio(media[cfile[c]].streams)]
            /\ cache' = [cache EXCEPT ![cfile[c]] =
                 PtNativeWrite(cfile[c], PtParseAudio(media[cfile[c]].streams))]
       ELSE /\ \E stderr \in Stderrs :
                 ReturnWith(c, RunError("probe_tracks", cfile[c], o, stderr), spawns[c] + Spawned(o))
            /\ UNCHANGED cache
  /\ UNCHANGED <<cfile, ncalls, others>>

\* run_json("tracks_audio") and the parse of its output (lines 1395-1396)
PtAudio(c) ==
  /\ pc[c] = "pt_audio"
  /\ \E o \in JsonRunOutcomes :
       IF o = "ok"
       THEN /\ GotoWith(c, "pt_subs", 1)
            /\ clocal' = [clocal EXCEPT ![c].audio = PtParseAudio(media[cfile[c]].streams)]
       ELSE \E stderr \in Stderrs :
              ReturnWith(c, RunError("probe_tracks", cfile[c], o, stderr), spawns[c] + Spawned(o))
  /\ UNCHANGED <<cache, cfile, ncalls, others>>

\* run_json("tracks_subs"), the parse of its output, the audio list sorted
\* once more (lines 1398-1402)
PtSubs(c) ==
  /\ pc[c] = "pt_subs"
  /\ \E o \in JsonRunOutcomes :
       IF o = "ok"
       THEN /\ GotoWith(c, "pt_store", 1)
            /\ clocal' = [clocal EXCEPT
                 ![c].subs = PtParseSubs(media[cfile[c]].streams),
                 ![c].audio = SortByIndex(clocal[c].audio)]
       ELSE \E stderr \in Stderrs :
              ReturnWith(c, RunError("probe_tracks", cfile[c], o, stderr), spawns[c] + Spawned(o))
  /\ UNCHANGED <<cache, cfile, ncalls, others>>

\* the cache write under the lock, and the return (lines 1413-1449)
PtStore(c) ==
  /\ pc[c] = "pt_store"
  /\ cache' = [cache EXCEPT ![cfile[c]] = PtWrite(cfile[c], clocal[c].audio, clocal[c].subs)]
  /\ Return(c, OkResult("probe_tracks", cfile[c], TRUE, FALSE, None, clocal[c].audio, clocal[c].subs))
  /\ UNCHANGED <<cfile, ncalls, others>>

-----------------------------------------------------------------------------
\* probe_subtitles

\* the cache write of probe_subtitles (lines 1562-1584)
PsWrite(f, subs) ==
  [EntryOrInsert(f, "direct") EXCEPT
     !.subtitle_streams = subs, !.has_subtitles = TRUE, !.ffprobe_runner = "direct"]

\* entry: the cache lookup under the lock, then ensure_input_file_exists,
\* validate_ffmpeg_bin_dir and the resolution of the binaries (lines 1457-1514)
PsEnter(c) ==
  \E f \in Files, h \in Hints :
    /\ Start(c, f)
    /\ IF cache[f].present /\ cache[f].has_subtitles
       THEN Return(c, OkResult("probe_subtitles", f, HintOk(h), TRUE, None, <<>>, cache[f].subtitle_streams))
       ELSE IF ~InputOk(f) THEN Return(c, ErrResult("probe_subtitles", f, HintOk(h), "input"))
       ELSE IF ~HintOk(h) THEN Return(c, ErrResult("probe_subtitles", f, HintOk(h), "hint"))
       ELSE /\ GotoWith(c, "ps_run", 0)
            /\ UNCHANGED clocal
    /\ UNCHANGED <<cache, others>>

\* an inspector run that is tried once more after it failed
PsRunRetrying(c) ==
  /\ pc[c] = "ps_run"
  /\ \E o \in JsonRunOutcomes :
       IF o = "ok"
       THEN /\ GotoWith(c, "ps_store", 1)
            /\ clocal' = [clocal EXCEPT ![c].subs = PtParseSubs(media[cfile[c]].streams)]
       ELSE IF spawns[c] = 0
       THEN /\ GotoWith(c, "ps_run", 1)
            /\ UNCHANGED clocal
       ELSE \E stderr \in Stderrs :
              ReturnWith(c, RunError("probe_subtitles", cfile[c], o, stderr), spawns[c] + Spawned(o))
  /\ UNCHANGED <<cache, cfile, ncalls, others>>

\* Command::output() of the inspector, exit status, parse (lines 1516-1560)
PsRun(c) ==
  /\ pc[c] = "ps_run"
  /\ \E o \in JsonRunOutcomes :
       IF o = "ok"
       THEN /\ GotoWith(c, "ps_store", 1)
            /\ clocal' = [clocal EXCEPT ![c].subs = PtParseSubs(media[cfile[c]].streams)]
       ELSE \E stderr \in Stderrs :
              ReturnWith(c, RunError("probe_subtitles", cfile[c], o, stderr), spawns[c] + Spawned(o))
  /\ UNCHANGED <<cache, cfile, ncalls, others>>

\* the cache write under the lock, and the return (lines 1562-1601)
PsStore(c) ==
  /\ pc[c] = "ps_store"
  /\ cache' = [cache EXCEPT ![cfile[c]] = PsWrite(cfile[c], clocal[c].subs)]
  /\ Return(c, OkResult("probe_subtitles", cfile[c], TRUE, FALSE, None, <<>>, clocal[c].subs))
  /\ UNCHANGED <<cfile, ncalls, others>>

-----------------------------------------------------------------------------
\* probe_media

\* the classification loop and the two sorts of probe_media (lines 2162-2231)
PmClassify(streams) ==
  [audio |-> AssignOrders(SortByIndex(SelectType(streams, "audio"))),
   subs  |-> AssignOrders(SortByIndex(SelectType(streams, "subtitle")))]

\* the record probe_media inserts, replacing what the key held (lines 2261-2279)
PmWrite(d, audio, subs) ==
  [present |-> TRUE,
   has_duration |-> d.some,
   has_tracks |-> (audio # <<>> \/ subs # <<>>),
   has_subtitles |-> TRUE,
   duration_seconds |-> d,
   audio_streams |-> audio,
   subtitle_streams |-> subs,
   ffprobe_runner |-> "direct"]

\* entry: ensure_input_file_exists, validate_ffmpeg_bin_dir, the resolution of
\* the binaries, then the cache lookup under the lock, where any record under
\* the key is a hit (lines 1981-2031)
PmEnter(c) ==
  \E f \in Files, h \in Hints :
    /\ Start(c, f)
    /\ IF ~InputOk(f) THEN Return(c, ErrResult("probe_media", f, HintOk(h), "input"))
       ELSE IF ~HintOk(h) THEN Return(c, ErrResult("probe_media", f, HintOk(h), "hint"))
       ELSE IF cache[f].present
       THEN Return(c, OkResult("probe_media", f, HintOk(h), TRUE, cache[f].duration_seconds,
                               cache[f].audio_streams, cache[f].subtitle_streams))
       ELSE /\ GotoWith(c, "pm_run", 0)
            /\ UNCHANGED clocal
    /\ UNCHANGED <<cache, others>>

\* the inspector spawned, its two streams drained, its exit awaited, its
\* output parsed as JSON (lines 2033-2153)
PmRun(c) ==
  /\ pc[c] = "pm_run"
  /\ \E o \in MediaRunOutcomes :
       IF o = "ok"
       THEN /\ GotoWith(c, "pm_store", 1)
            /\ UNCHANGED clocal
       ELSE \E stderr \in Stderrs :
              ReturnWith(c, RunError("probe_media", cfile[c], o, stderr), spawns[c] + Spawned(o))
  /\ UNCHANGED <<cache, cfile, ncalls, others>>

\* duration and streams out of the JSON, the cache insert under the lock,
\* the return (lines 2156-2281)
PmStore(c) ==
  /\ pc[c] = "pm_store"
  /\ LET json == InspectorJson(cfile[c])
         d == ParseDurationJson(json)
         cl == PmClassify(json.streams)
     IN /\ cache' = [cache EXCEPT ![cfile[c]] = PmWrite(d, cl.audio, cl.subs)]
        /\ Return(c, OkResult("probe_media", cfile[c], TRUE, FALSE, d, cl.audio, cl.subs))
  /\ UNCHANGED <<cfile, ncalls, others>>

-----------------------------------------------------------------------------
\* The probe commands, run by concurrent callers.

\* values the variables of the other specifications rest at
StreamsIdle == sin = <<>> /\ sout = [by |-> "", audio |-> <<>>, subs |-> <<>>]
TrimIdle == tin = <<>> /\ tpc = "off" /\ tloc = <<>> /\ tobs = <<>>

\* the probe commands before any call
ProbeStart ==
  /\ cache = [f \in Files |-> NoEntry]
  /\ pc = [c \in Callers |-> "idle"]
  /\ cfile = [c \in Callers |-> "f1"]
  /\ clocal = [c \in Callers |-> NoLocal]
  /\ result = NoResult
  /\ spawns = [c \in Callers |-> 0]
  /\ ncalls = 0

ProbeIdle == windows = FALSE /\ media = [f \in Files |-> MissingFile] /\ ProbeStart

Init ==
  /\ ThreadIdle
  /\ windows \in BOOLEAN
  /\ media \in [Files -> Profiles]
  /\ ProbeStart
  /\ StreamsIdle
  /\ TrimIdle
  /\ ExtraIdle

Next ==
  \E c \in Callers :
    \/ PdEnter(c) \/ PdNative(c) \/ PdRun(c) \/ PdStore(c)
    \/ PtEnter(c) \/ PtNative(c) \/ PtNativeStore(c) \/ PtAudio(c) \/ PtSubs(c) \/ PtStore(c)
    \/ PsEnter(c) \/ PsRun(c) \/ PsStore(c)
    \/ PmEnter(c) \/ PmRun(c) \/ PmStore(c)

Spec == Init /\ [][Next]_vars

-----------------------------------------------------------------------------
\* Claims about the probe cache.

\* caller c returns successfully from one of the positions ps in this step
Stores(c, f, ps) == pc[c] \in ps /\ cfile[c] = f /\ pc'[c] = "idle" /\ result'.ok

\* C1: a duration probe followed by a track probe leaves one record holding
\* both. A probe_tracks cache write leaves the record's duration flag and value
\* as they were and stores the track lists it returns with their flag set; a
\* probe_duration cache write leaves the track and subtitle lists and flags as
\* they were and stores the duration it returns. Neither write sets the other's
\* field to an absent value.
C1_MergeKeepsBoth ==
  [][\A c \in Callers, f \in Files :
       /\ Stores(c, f, {"pt_store", "pt_native_store"}) =>
            /\ cache'[f].present
            /\ cache'[f].has_duration = cache[f].has_duration
            /\ cache'[f].duration_seconds = cache[f].duration_seconds
            /\ cache'[f].has_tracks
            /\ cache'[f].audio_streams = result'.audio
            /\ pc[c] = "pt_store" => cache'[f].subtitle_streams = result'.subs
       /\ Stores(c, f, {"pd_store", "pd_native"}) =>
            /\ cache'[f].present
            /\ cache'[f].has_tracks = cache[f].has_tracks
            /\ cache'[f].has_subtitles = cache[f].has_subtitles
            /\ cache'[f].audio_streams = cache[f].audio_streams
            /\ cache'[f].subtitle_streams = cache[f].subtitle_streams
            /\ cache'[f].duration_seconds = result'.duration
            /\ cache'[f].has_duration = result'.duration.some]_vars

\* C1 witness: probe_tracks has just stored its lists into a record that
\* already held the duration a probe_duration had written (the record was not
\* made by probe_media, which sets the subtitle flag), and both are there.
C1_Witness ==
  \E f \in Files :
    /\ result.op = "probe_tracks" /\ result.ok /\ ~result.cache_hit /\ result.file = f
    /\ cache[f].has_duration /\ cache[f].duration_seconds = Some(12)
    /\ cache[f].has_tracks /\ ~cache[f].has_subtitles
    /\ Len(cache[f].audio_streams) = 2
    /\ \A c \in Callers : pc[c] = "idle"

\* C2: once a record holds a duration, an audio list or a subtitle list with
\* its completeness flag set, no later cache write clears the flag or replaces
\* the value by an absent or empty one.
C2_NeverCleared ==
  [][\A f \in Files :
       /\ (cache[f].has_duration /\ cache[f].duration_seconds.some) =>
            (cache'[f].has_duration /\ cache'[f].duration_seconds.some)
       /\ cache[f].has_tracks =>
            /\ cache'[f].has_tracks
            /\ cache[f].audio_streams # <<>> => cache'[f].audio_streams # <<>>
       /\ cache[f].has_subtitles =>
            /\ cache'[f].has_subtitles
            /\ cache[f].subtitle_streams # <<>> => cache'[f].subtitle_streams # <<>>]_vars

-----------------------------------------------------------------------------
\* SpecStreams: the classification applied to every bounded stream list.

\* the lists of length n over the streams with index 0..MaxIndex
RawStreams == {RawStream(i, t) : i \in 0..MaxIndex, t \in CodecTypes}
StreamLists == UNION {[1..n -> RawStreams] : n \in 0..MaxStreams}

NotClassified == [by |-> "", audio |-> <<>>, subs |-> <<>>]

InitStreams ==
  /\ ThreadIdle
  /\ sin \in StreamLists
  /\ sout = NotClassified
  /\ ProbeIdle
  /\ TrimIdle
  /\ ExtraIdle

\* parse_streams_from_ffprobe_json on the inspector's list (lines 758-835)
ParseStreamsJson ==
  /\ sout.by = ""
  /\ sout' = [by |-> "parse_streams_from_ffprobe_json",
              audio |-> ParseStreams(sin).audio, subs |-> ParseStreams(sin).subs]
  /\ UNCHANGED <<sin, probeVars, trimVars, extraVars>>

\* the classification of probe_media on the inspector's list (lines 2162-2231)
ProbeMediaJson ==
  /\ sout.by = ""
  /\ sout' = [by |-> "probe_media",
              audio |-> PmClassify(sin).audio, subs |-> PmClassify(sin).subs]
  /\ UNCHANGED <<sin, probeVars, trimVars, extraVars>>

\* the two queries of probe_tracks on the inspector's list, each parsed, the
\* audio list sorted once more (lines 1395-1402)
ProbeTracksJson ==
  /\ sout.by = ""
  /\ sout' = [by |-> "probe_tracks",
              audio |-> SortByIndex(PtParseAudio(sin)), subs |-> PtParseSubs(sin)]
  /\ UNCHANGED <<sin, probeVars, trimVars, extraVars>>

NextStreams == ParseStreamsJson \/ ProbeMediaJson \/ ProbeTracksJson

SpecStreams == InitStreams /\ [][NextStreams]_vars

\* the positions of sin holding a stream of type t with index k
Occurrences(t, k) == {j \in DOMAIN sin : sin[j].codec_type = t /\ sin[j].index = k}

\* part is the streams of type t of sin, ascending by index, with orders 0..n-1
Classified(part, t) ==
  /\ \A i \in DOMAIN part : part[i].order = i - 1 /\ part[i].codec_type = t
  /\ \A i, j \in DOMAIN part : i < j => part[i].index <= part[j].index
  /\ \A k \in 0..MaxIndex :
       Cardinality({i \in DOMAIN part : part[i].index = k}) = Cardinality(Occurrences(t, k))

\* C3: for every stream list, whatever its indices and order, the audio
\* partition and the subtitle partition each hold exactly the streams of their
\* type, ascending by global index, with order values 0..n-1 in that order.
C3_DenseOrders ==
  sout.by # "" => Classified(sout.audio, "audio") /\ Classified(sout.subs, "subtitle")

\* C3 witness: audio indices 3 and 1 and subtitle index 2, reported out of
\* order, come out as audio 1 -> 0, 3 -> 1 and subtitle 2 -> 0.
C3_Witness ==
  /\ sin = <<RawStream(3, "audio"), RawStream(2, "subtitle"), RawStream(1, "audio")>>
  /\ sout.by # ""
  /\ sout.audio = <<[order |-> 0, index |-> 1, codec_type |-> "audio"],
                    [order |-> 1, index |-> 3, codec_type |-> "audio"]>>
  /\ sout.subs = <<[order |-> 0, index |-> 2, codec_type |-> "subtitle"]>>

-----------------------------------------------------------------------------
\* trim_media: one call, from its arguments to its result.
\* Strings the code inspects character by character are sequences of
\* one-character strings.

Upper == <<"A","B","C","D","E","F","G","H","I","J","K","L","M",
           "N","O","P","Q","R","S","T","U","V","W","X","Y","Z">>
Lower == <<"a","b","c","d","e","f","g","h","i","j","k","l","m",
           "n","o","p","q","r","s","t","u","v","w","x","y","z">>
Digits == <<"0","1","2","3","4","5","6","7","8","9">>

\* char::to_lowercase on the ASCII letters
ToLowerChar(c) ==
  IF \E i \in DOMAIN Upper : Upper[i] = c
  THEN Lower[CHOOSE i \in DOMAIN Upper : Upper[i] = c]
  ELSE c

\* str::to_lowercase
ToLowercase(s) == [i \in 1..Len(s) |-> ToLowerChar(s[i])]

IsWhitespace(c) == c \in {" ", "\t"}

RECURSIVE TrimStart(_)
TrimStart(s) ==
  IF s # <<>> /\ IsWhitespace(Head(s)) THEN TrimStart(Tail(s)) ELSE s

RECURSIVE TrimEnd(_)
TrimEnd(s) ==
  IF s # <<>> /\ IsWhitespace(s[Len(s)])
  THEN TrimEnd(SubSeq(s, 1, Len(s) - 1))
  ELSE s

\* str::trim
TrimStr(s) == TrimEnd(TrimStart(s))

IsAsciiDigit(c) == \E i \in DOMAIN Digits : Digits[i] = c
DigitValue(c) == (CHOOSE i \in DOMAIN Digits : Digits[i] = c) - 1
AllDigits(s) == \A i \in 1..Len(s) : IsAsciiDigit(s[i])

\* str::split(sep): the pieces between the separators, empty pieces included
RECURSIVE SplitOn(_, _)
SplitOn(s, sep) ==
  IF \A i \in 1..Len(s) : s[i] # sep
  THEN <<s>>
  ELSE LET k == CHOOSE i \in 1..Len(s) :
                  s[i] = sep /\ \A j \in 1..(i - 1) : s[j] # sep
       IN  <<SubSeq(s, 1, k - 1)>> \o SplitOn(SubSeq(s, k + 1, Len(s)), sep)

\* str::replace(from, to) on single characters
ReplaceChar(s, from, to) == [i \in 1..Len(s) |-> IF s[i] = from THEN to ELSE s[i]]

\* the value of a string of digits
RECURSIVE DigitsValue(_)
DigitsValue(s) ==
  IF s = <<>> THEN 0
  ELSE 10 * DigitsValue(SubSeq(s, 1, Len(s) - 1)) + DigitValue(s[Len(s)])

\* An f64 of seconds is kept in milliseconds; NaN is a value of its own.
\* Every comparison with NaN is false.
Secs(ms) == [nan |-> FALSE, ms |-> ms]
NaN == [nan |-> TRUE, ms |-> 0]
F64Le(a, b) == ~a.nan /\ ~b.nan /\ a.ms <= b.ms
F64Lt(a, b) == ~a.nan /\ ~b.nan /\ a.ms < b.ms
F64Ge(a, b) == ~a.nan /\ ~b.nan /\ a.ms >= b.ms
F64Sub(a, b) == IF a.nan \/ b.nan THEN NaN ELSE Secs(a.ms - b.ms)

\* digits after the decimal point, as milliseconds (three digits are kept)
FractionMs(s) ==
  LET d(i) == IF i <= Len(s) THEN DigitValue(s[i]) ELSE 0
  IN  100 * d(1) + 10 * d(2) + d(3)

\* str::parse::<f64>() on the forms drawn here: "NaN" in any case, and
\* digits with an optional decimal point (signs, exponents and infinities,
\* which the parser also accepts, are not drawn).
DecimalParts(parts) ==
  IF Len(parts) = 1 /\ parts[1] # <<>> /\ AllDigits(parts[1])
  THEN Some(Secs(1000 * DigitsValue(parts[1])))
  ELSE IF /\ Len(parts) = 2
          /\ AllDigits(parts[1]) /\ AllDigits(parts[2])
          /\ parts[1] \o parts[2] # <<>>
    THEN Some(Secs(1000 * DigitsValue(parts[1]) + FractionMs(parts[2])))
  ELSE None
ParseF64(s) ==
  IF ToLowercase(s) = <<"n","a","n">> THEN Some(NaN)
  ELSE DecimalParts(SplitOn(s, "."))

\* parse_hh_mm_ss_with_millis: Ok(seconds) or Err
TimeErr == [ok |-> FALSE, v |-> NaN]
TimeOk(v) == [ok |-> TRUE, v |-> v]
TimeFields(h, m, s) ==
  IF h = <<>> \/ ~AllDigits(h) THEN TimeErr
  ELSE IF Len(m) # 2 \/ ~AllDigits(m) THEN TimeErr
  ELSE IF ~s.some THEN TimeErr
  ELSE IF \/ DigitsValue(m) >= 60
          \/ F64Ge(s.v, Secs(60000))
          \/ F64Lt(s.v, Secs(0))
    THEN TimeErr
  ELSE IF s.v.nan THEN TimeOk(NaN)
  ELSE TimeOk(Secs(3600000 * DigitsValue(h) + 60000 * DigitsValue(m) + s.v.ms))
TimeParts(parts) ==
  IF Len(parts) # 3 THEN TimeErr
  ELSE TimeFields(parts[1], parts[2], ParseF64(parts[3]))
parse_hh_mm_ss_with_millis(input) == TimeParts(SplitOn(input, ":"))

\* time_for_filename
time_for_filename(input) == ReplaceChar(input, ":", "h")

\* ---- the arguments a call is made with ----

T_0 == <<"0","0",":","0","0",":","0","0">>
T_5 == <<"0",":","0","0",":","0","5",".","5">>
T_bad == <<"0","0",":","5",":","0","0">>
T_nan == <<"0","0",":","0","0",":","N","a","N">>
\* the <<in_time, out_time>> pairs drawn: in order, reversed, equal, one
\* malformed, one not a number
TimePairs ==
  {<<T_0, T_5>>, <<T_5, T_0>>, <<T_5, T_5>>, <<T_bad, T_5>>, <<T_5, T_bad>>,
   <<T_nan, T_5>>, <<T_0, T_nan>>}

M_lossless == <<"l","o","s","s","l","e","s","s">>
M_exact == <<"e","x","a","c","t">>
M_Exact_padded == <<" ","E","x","a","c","t"," ">>
M_copy == <<"c","o","p","y">>
ModeInputs == {M_lossless, M_Exact_padded, M_copy}

NoExt == [some |-> FALSE, v |-> <<>>]
Ext(e) == [some |-> TRUE, v |-> e]
E_mp4 == <<"m","p","4">>
E_m4v == <<"m","4","v">>
E_mov == <<"m","o","v">>
E_MOV == <<"M","O","V">>
E_mkv == <<"m","k","v">>

\* input_path: what is at the path, and the extension of its file name
InputPath(kind, ext) == [kind |-> kind, ext |-> ext]
InputPaths ==
  {InputPath("missing", Ext(E_mp4)), InputPath("dir", NoExt),
   InputPath("file", Ext(E_mp4)), InputPath("file", Ext(E_m4v)),
   InputPath("file", Ext(E_MOV)), InputPath("file", Ext(E_mkv)),
   InputPath("file", NoExt)}

AudioSelectors == {-1, 0, 2}
SubtitleSelectors == {-1, 0, 3}

TrimCalls ==
  {[input_path |-> p, in_time |-> t[1], out_time |-> t[2], mode |-> m,
    audio_stream_index |-> a, subtitle_stream_index |-> g,
    ffmpeg_bin_dir |-> h] :
     p \in InputPaths, t \in TimePairs, m \in ModeInputs,
     a \in AudioSelectors, g \in SubtitleSelectors, h \in Hints}

\* ---- rotation ----

\* i32 remainder: the sign follows the dividend
RustRem(a, b) == IF a >= 0 THEN a % b ELSE 0 - ((0 - a) % b)

\* a normalisation that leaves a negative remainder as it is
NormalizeNoWrap(deg) ==
  LET d == RustRem(deg, 360)
  IN  IF d \in {0, 90, 180, 270} THEN d ELSE 0

normalize_rotation_degrees(deg) ==
  LET r == RustRem(deg, 360)
      d == IF r < 0 THEN r + 360 ELSE r
  IN  IF d \in {0, 90, 180, 270} THEN d ELSE 0

NoFilter == [some |-> FALSE, v |-> ""]
Filter(f) == [some |-> TRUE, v |-> f]
\* a table with the two quarter turns exchanged
RotationFilterExchanged(deg) ==
  LET d == normalize_rotation_degrees(deg)
  IN  IF d = 90 THEN Filter("transpose=1")
      ELSE IF d = 180 THEN Filter("hflip,vflip")
      ELSE IF d = 270 THEN Filter("transpose=2")
      ELSE NoFilter

\* the correcting filter of a rotation (lines 369-378)
rotation_filter_for_degrees(deg) ==
  LET d == normalize_rotation_degrees(deg)
  IN  IF d = 90 THEN Filter("transpose=2")
      ELSE IF d = 180 THEN Filter("hflip,vflip")
      ELSE IF d = 270 THEN Filter("transpose=1")
      ELSE NoFilter

\* What the inspector run for the rotation gives: whether the process could
\* be started, how it ended, and what the first video stream carries (the
\* parsed rotate tag, and the rotation values of its side data in order).
\* A run that ended well printed JSON that does not parse ("bad_json"), JSON
\* without a video stream ("no_video") or a first video stream ("ok").
RotationReport(o, tag, side) == [outcome |-> o, tag |-> tag, side |-> side]
NoReport == RotationReport("", None, <<>>)
RotationReports ==
  {RotationReport("spawn_failed", None, <<>>),
   RotationReport("exit_nonzero", None, <<>>),
   RotationReport("bad_json", None, <<>>),
   RotationReport("no_video", None, <<>>),
   RotationReport("ok", None, <<>>),
   RotationReport("ok", Some(90), <<>>),
   RotationReport("ok", Some(-90), <<>>),
   RotationReport("ok", Some(45), <<180>>),
   RotationReport("ok", None, <<0, 180>>)}

\* the first side-data rotation that normalises to a non-zero value, else 0
RECURSIVE FirstSideRotation(_)
FirstSideRotation(side) ==
  IF side = <<>> THEN 0
  ELSE IF normalize_rotation_degrees(Head(side)) # 0
    THEN normalize_rotation_degrees(Head(side))
  ELSE FirstSideRotation(Tail(side))

probe_video_rotation_degrees_best_effort(report) ==
  IF report.outcome # "ok" THEN 0
  ELSE IF report.tag.some THEN normalize_rotation_degrees(report.tag.v)
  ELSE FirstSideRotation(report.side)

\* LosslessRefused that never refuses
LosslessNeverRefused(mode, rotation_degrees) == FALSE
\* lossless refuses rotated input
LosslessRefused(mode, rotation_degrees) ==
  mode = M_lossless /\ rotation_degrees # 0

\* ---- the encoder's argument list ----
\* An argument is a pair: a literal and 0, or a format and the number put
\* into it.

Lit(s) == <<s, 0>>
\* format!("{:.6}", seconds)
ArgSecs(v) == IF v.nan THEN <<"NaN", 0>> ELSE <<"{:.6}", v.ms>>
ArgInput == <<"input_path", 0>>
ArgOutput(path) == <<"output_path", path.n>>
\* format!("0:a:{audio_stream_index}")
AudioSpec(k) == <<"0:a:", k>>
\* format!("0:{subtitle_stream_index}")
StreamSpec(g) == <<"0:", g>>
\* format!("rotate={rotation_degrees}")
RotateTag(d) == <<"rotate=", d>>

\* SeekArgs with -ss after -i, the order the code's comment calls the
\* previous one
SeekArgsSeekAfterInput(mode, in_arg, dur_arg, filter) ==
  <<Lit("-v"), Lit("error"), Lit("-progress"), Lit("pipe:1"),
    Lit("-i"), ArgInput, Lit("-ss"), in_arg, Lit("-t"), dur_arg>>
\* seek and input: -ss before -i, -t after it
SeekArgs(mode, in_arg, dur_arg, filter) ==
  IF mode = M_lossless
  THEN <<Lit("-v"), Lit("error"), Lit("-progress"), Lit("pipe:1"),
         Lit("-ss"), in_arg, Lit("-i"), ArgInput, Lit("-t"), dur_arg>>
  ELSE <<Lit("-v"), Lit("error"), Lit("-progress"), Lit("pipe:1"),
         Lit("-accurate_seek"), Lit("-ss"), in_arg>>
       \o (IF filter.some THEN <<Lit("-noautorotate")>> ELSE <<>>)
       \o <<Lit("-i"), ArgInput, Lit("-t"), dur_arg>>

\* AudioArgs taking the selector 0 as "no audio"
AudioArgsPositiveOnly(audio_stream_index) ==
  IF audio_stream_index <= 0
  THEN <<Lit("-an")>>
  ELSE <<Lit("-map"), AudioSpec(audio_stream_index)>>
\* audio selection: the per-type order, or no audio at all
AudioArgs(audio_stream_index) ==
  IF audio_stream_index < 0
  THEN <<Lit("-an")>>
  ELSE <<Lit("-map"), AudioSpec(audio_stream_index)>>

\* SubtitleMapArgs without the mode condition
SubtitleMapArgsAnyMode(mode, subtitle_stream_index) ==
  IF subtitle_stream_index >= 0
  THEN <<Lit("-map"), StreamSpec(subtitle_stream_index)>>
  ELSE <<>>
\* subtitle selection: mapped by global index, never in lossless mode
SubtitleMapArgs(mode, subtitle_stream_index) ==
  IF subtitle_stream_index >= 0 /\ mode # M_lossless
  THEN <<Lit("-map"), StreamSpec(subtitle_stream_index)>>
  ELSE <<>>

\* TimestampArgs without the lowercasing
TimestampArgsCaseSensitive(extension) ==
  LET output_ext == IF extension.some THEN extension.v ELSE <<>>
  IN  IF output_ext \in {E_mp4, E_m4v, E_mov}
      THEN <<Lit("-avoid_negative_ts"), Lit("make_zero"),
             Lit("-fflags"), Lit("+genpts")>>
      ELSE <<Lit("-copyts"), Lit("-avoid_negative_ts"), Lit("make_zero")>>
\* lossless: the timestamp flags the output container needs
TimestampArgs(extension) ==
  LET output_ext == IF extension.some THEN ToLowercase(extension.v) ELSE <<>>
  IN  IF output_ext \in {E_mp4, E_m4v, E_mov}
      THEN <<Lit("-avoid_negative_ts"), Lit("make_zero"),
             Lit("-fflags"), Lit("+genpts")>>
      ELSE <<Lit("-copyts"), Lit("-avoid_negative_ts"), Lit("make_zero")>>

\* lossless: stream copy
LosslessArgs(output_path, rotation_degrees) ==
  <<Lit("-c"), Lit("copy")>>
  \o TimestampArgs(output_path.extension)
  \o (IF rotation_degrees # 0
      THEN <<Lit("-metadata:s:v:0"), RotateTag(rotation_degrees)>>
      ELSE <<>>)

\* ExactArgs that copies a selected subtitle without -shortest, and copies
\* audio whether or not one is selected
ExactArgsLoose(filter, audio_stream_index, subtitle_stream_index) ==
  <<Lit("-c:v"), Lit("libx264"), Lit("-crf"), Lit("18"),
    Lit("-preset"), Lit("veryfast"), Lit("-pix_fmt"), Lit("yuv420p"),
    Lit("-c:a"), Lit("copy")>>
  \o (IF subtitle_stream_index >= 0 THEN <<Lit("-c:s"), Lit("copy")>> ELSE <<>>)
\* exact: re-encode the video, copy the selected audio and subtitle
ExactArgs(filter, audio_stream_index, subtitle_stream_index) ==
  (IF filter.some
   THEN <<Lit("-vf"), Lit(filter.v), Lit("-metadata:s:v:0"), RotateTag(0)>>
   ELSE <<>>)
  \o <<Lit("-c:v"), Lit("libx264"), Lit("-crf"), Lit("18"),
       Lit("-preset"), Lit("veryfast"), Lit("-pix_fmt"), Lit("yuv420p")>>
  \o (IF audio_stream_index >= 0 THEN <<Lit("-c:a"), Lit("copy")>> ELSE <<>>)
  \o (IF subtitle_stream_index >= 0
      THEN <<Lit("-c:s"), Lit("copy"), Lit("-shortest")>>
      ELSE <<>>)

\* the whole command line, in the order the code appends it
EncoderArgs(call, loc) ==
  LET filter == rotation_filter_for_degrees(loc.rotation_degrees)
      in_time_arg == ArgSecs(loc.in_seconds)
      duration_arg == ArgSecs(F64Sub(loc.out_seconds, loc.in_seconds))
  IN  SeekArgs(loc.mode, in_time_arg, duration_arg, filter)
      \o <<Lit("-map"), Lit("0:v:0")>>
      \o AudioArgs(call.audio_stream_index)
      \o SubtitleMapArgs(loc.mode, call.subtitle_stream_index)
      \o (IF loc.mode = M_lossless
          THEN LosslessArgs(loc.output_path, loc.rotation_degrees)
          ELSE ExactArgs(filter, call.audio_stream_index,
                         call.subtitle_stream_index))
      \o <<Lit("-y"), ArgOutput(loc.output_path)>>

\* ---- the stages of a call ----

MinOutputBytes == 10000
MaxNumbered == 999

\* OutNotAfterIn with a strict comparison
OutBeforeIn(in_seconds, out_seconds) == F64Lt(out_seconds, in_seconds)
\* out_seconds <= in_seconds
OutNotAfterIn(in_seconds, out_seconds) == F64Le(out_seconds, in_seconds)

\* the checks trim_media makes before anything else, in their order:
\* the first that fails names the error
CallCheck(e, i, o, m) == [err |-> e, in_seconds |-> i, out_seconds |-> o, mode |-> m]
check_call(call) ==
  LET i == parse_hh_mm_ss_with_millis(call.in_time)
      o == parse_hh_mm_ss_with_millis(call.out_time)
      m == ToLowercase(TrimStr(call.mode))
  IN  IF call.input_path.kind = "missing" THEN CallCheck("no_input", NaN, NaN, m)
      ELSE IF call.input_path.kind # "file" THEN CallCheck("not_a_file", NaN, NaN, m)
      ELSE IF ~HintOk(call.ffmpeg_bin_dir) THEN CallCheck("bin_dir", NaN, NaN, m)
      ELSE IF ~i.ok THEN CallCheck("in_time", NaN, NaN, m)
      ELSE IF ~o.ok THEN CallCheck("out_time", i.v, NaN, m)
      ELSE IF OutNotAfterIn(i.v, o.v) THEN CallCheck("out_not_after_in", i.v, o.v, m)
      ELSE IF m # M_lossless /\ m # M_exact THEN CallCheck("mode", i.v, o.v, m)
      ELSE CallCheck("", i.v, o.v, m)

\* build_output_path: {stem}_clip_{mode}_{in}_{out}.{ext}; n is the number
\* appended when the name is taken (0: none)
OutputPath(mode, in_time, out_time, ext, n) ==
  [mode |-> mode, suffix_in |-> in_time, suffix_out |-> out_time,
   extension |-> ext, n |-> n]
build_output_path(call, mode) ==
  OutputPath(mode, time_for_filename(call.in_time), time_for_filename(call.out_time),
             IF call.input_path.ext.some THEN call.input_path.ext ELSE Ext(E_mp4), 0)

\* which of the candidate names (0: the base name, i: "name (i)") exist
ExistingOutputs == {{}, {0}, {0, 1}, 0..MaxNumbered}

\* the first free name: the base, else the lowest free number, else the last
FirstFree(existing) ==
  IF 0 \notin existing THEN 0
  ELSE IF \E i \in 1..MaxNumbered : i \notin existing
    THEN CHOOSE i \in 1..MaxNumbered :
           i \notin existing /\ \A j \in 1..(i - 1) : j \in existing
  ELSE MaxNumbered

NoPath == OutputPath(<<>>, <<>>, <<>>, NoExt, 0)
TrimLocals0 ==
  [in_seconds |-> NaN, out_seconds |-> NaN, mode |-> <<>>,
   output_path |-> NoPath, ffmpeg_path |-> "", rotation_report |-> NoReport,
   rotation_degrees |-> 0, args |-> <<>>]

TrimNoResult == [status |-> "none", err |-> "", actual |-> None, warning |-> FALSE]
TrimErr(kind) == [status |-> "err", err |-> kind, actual |-> None, warning |-> FALSE]
TrimOk(actual, warning) ==
  [status |-> "ok", err |-> "", actual |-> actual, warning |-> warning]

TrimObserved0 ==
  [inspectors |-> 0, encoders |-> 0, existing |-> {}, exit |-> "none",
   written |-> None, file |-> None, result |-> TrimNoResult]

\* return Err(kind)
TrimFail(obs, kind) ==
  /\ tpc' = "failed"
  /\ tobs' = [obs EXCEPT !.result = TrimErr(kind)]

trimOthers == <<tin, probeVars, streamVars, extraVars>>

TrimValidate ==
  /\ tpc = "validating"
  /\ LET c == check_call(tin)
     IN  IF c.err # ""
         THEN TrimFail(tobs, c.err) /\ UNCHANGED tloc
         ELSE /\ tpc' = "naming"
              /\ tloc' = [tloc EXCEPT !.in_seconds = c.in_seconds,
                                      !.out_seconds = c.out_seconds,
                                      !.mode = c.mode]
              /\ UNCHANGED tobs
  /\ UNCHANGED trimOthers

TrimOutputPath ==
  /\ tpc = "naming"
  /\ \E existing \in ExistingOutputs :
       /\ tloc' = [tloc EXCEPT !.output_path =
                     [build_output_path(tin, tloc.mode) EXCEPT !.n = FirstFree(existing)]]
       /\ tobs' = [tobs EXCEPT !.existing = existing]
  /\ tpc' = "resolving"
  /\ UNCHANGED trimOthers

\* resolve_ffmpeg_binaries_with_fallback: the hint, else a detected
\* directory, else the bare program name
TrimResolve ==
  /\ tpc = "resolving"
  /\ \E detected \in BOOLEAN :
       tloc' = [tloc EXCEPT !.ffmpeg_path =
                  IF tin.ffmpeg_bin_dir # "" THEN "hint"
                  ELSE IF detected THEN "detected" ELSE "bare"]
  /\ tpc' = "rotation"
  /\ UNCHANGED <<tobs, trimOthers>>

\* a rotation probe whose failure is returned to the caller
TrimRotationProbeStrict ==
  /\ tpc = "rotation"
  /\ \E report \in RotationReports :
       LET d == probe_video_rotation_degrees_best_effort(report)
           obs == [tobs EXCEPT !.inspectors =
                     IF report.outcome = "spawn_failed" THEN @ ELSE @ + 1]
       IN  /\ tloc' = [tloc EXCEPT !.rotation_report = report,
                                    !.rotation_degrees = d]
           /\ IF report.outcome \in {"spawn_failed", "exit_nonzero", "bad_json"}
              THEN TrimFail(obs, "rotation_probe")
              ELSE IF LosslessRefused(tloc.mode, d)
              THEN TrimFail(obs, "rotated")
              ELSE tpc' = "building" /\ tobs' = obs
  /\ UNCHANGED trimOthers

TrimRotationProbe ==
  /\ tpc = "rotation"
  /\ \E report \in RotationReports :
       LET d == probe_video_rotation_degrees_best_effort(report)
           obs == [tobs EXCEPT !.inspectors =
                     IF report.outcome = "spawn_failed" THEN @ ELSE @ + 1]
       IN  /\ tloc' = [tloc EXCEPT !.rotation_report = report,
                                    !.rotation_degrees = d]
           /\ IF LosslessRefused(tloc.mode, d)
              THEN TrimFail(obs, "rotated")
              ELSE tpc' = "building" /\ tobs' = obs
  /\ UNCHANGED trimOthers

TrimBuild ==
  /\ tpc = "building"
  /\ tloc' = [tloc EXCEPT !.args = EncoderArgs(tin, tloc)]
  /\ tpc' = "spawning"
  /\ UNCHANGED <<tobs, trimOthers>>

\* TrimSpawn taking the place of the rotation probe
TrimSpawnUnprobed ==
  /\ tpc = "rotation"
  /\ tpc' = "draining"
  /\ tobs' = [tobs EXCEPT !.encoders = @ + 1]
  /\ UNCHANGED <<tloc, trimOthers>>

\* Command::spawn of the encoder
TrimSpawn ==
  /\ tpc = "spawning"
  /\ \E outcome \in {"spawned", "not_found", "io_error"} :
       IF outcome = "spawned"
       THEN tpc' = "draining" /\ tobs' = [tobs EXCEPT !.encoders = @ + 1]
       ELSE TrimFail(tobs, outcome)
  /\ UNCHANGED <<tloc, trimOthers>>

\* the progress loop: read the encoder's output until it closes
TrimDrain ==
  /\ tpc = "draining"
  /\ tpc' = "waiting"
  /\ UNCHANGED <<tloc, tobs, trimOthers>>

\* what the encoder leaves at the output path: nothing, or a file of a size
OutputFiles == {None, Some(MinOutputBytes - 1), Some(MinOutputBytes)}

\* child.wait(), the diagnostic stream, and the exit status
TrimWait ==
  /\ tpc = "waiting"
  /\ \E exit \in {"success", "failure", "wait_error"}, file \in OutputFiles :
       LET obs == [tobs EXCEPT !.exit = exit, !.written = file, !.file = file]
       IN  IF exit = "success"
           THEN tpc' = "checking" /\ tobs' = obs
           ELSE TrimFail(obs, IF exit = "failure" THEN "ffmpeg_failed" ELSE "wait")
  /\ UNCHANGED <<tloc, trimOthers>>

\* the size an unreadable or absent file counts as
output_size(file) == IF file.some THEN file.v ELSE 0

\* Undersized that never holds
UndersizedNever(size) == FALSE
\* output_size < 10_000
Undersized(size) == size < MinOutputBytes

\* a size check that reports an undersized output and leaves it
TrimCheckSizeKeeping ==
  /\ tpc = "checking"
  /\ IF Undersized(output_size(tobs.file))
     THEN TrimFail(tobs, "invalid_output")
     ELSE tpc' = "reprobing" /\ UNCHANGED tobs
  /\ UNCHANGED <<tloc, trimOthers>>

\* the size check: an undersized output is removed and reported
\* (remove_file is taken to succeed on a file that is there)
TrimCheckSize ==
  /\ tpc = "checking"
  /\ IF Undersized(output_size(tobs.file))
     THEN TrimFail([tobs EXCEPT !.file = None], "invalid_output")
     ELSE tpc' = "reprobing" /\ UNCHANGED tobs
  /\ UNCHANGED <<tloc, trimOthers>>

\* what the inspector says the output lasts, relative to the request
ActualOffsets == {-501, 500}
ReprobeOutcomes(requested) ==
  {[spawned |-> FALSE, actual |-> None], [spawned |-> TRUE, actual |-> None]}
  \cup {[spawned |-> TRUE,
         actual |-> Some(IF requested.nan THEN 1000 + d ELSE requested.ms + d)] :
        d \in ActualOffsets}

\* a warning already at the tolerance
DurationWarningAtTolerance(actual, requested) ==
  /\ actual.some
  /\ ~requested.nan
  /\ LET diff == IF actual.v >= requested.ms
                 THEN actual.v - requested.ms ELSE requested.ms - actual.v
     IN  diff >= 500

\* |actual - requested| > 0.5
duration_warning(actual, requested) ==
  /\ actual.some
  /\ ~requested.nan
  /\ LET diff == IF actual.v >= requested.ms
                 THEN actual.v - requested.ms ELSE requested.ms - actual.v
     IN  diff > 500

\* probe_duration_ffprobe on the output, the warning, and Ok(TrimResult)
TrimReprobe ==
  /\ tpc = "reprobing"
  /\ \E r \in ReprobeOutcomes(F64Sub(tloc.out_seconds, tloc.in_seconds)) :
       tobs' = [tobs EXCEPT
                  !.inspectors = IF r.spawned THEN @ + 1 ELSE @,
                  !.result = TrimOk(r.actual,
                               duration_warning(r.actual,
                                 F64Sub(tloc.out_seconds, tloc.in_seconds)))]
  /\ tpc' = "done"
  /\ UNCHANGED <<tloc, trimOthers>>

InitTrim ==
  /\ othread = "main"
  /\ ProbeIdle
  /\ StreamsIdle
  /\ tin \in TrimCalls
  /\ tpc = "validating"
  /\ tloc = TrimLocals0
  /\ tobs = TrimObserved0
  /\ ExtraIdle

NextTrim ==
  \/ TrimValidate \/ TrimOutputPath \/ TrimResolve \/ TrimRotationProbe
  \/ TrimBuild \/ TrimSpawn \/ TrimDrain \/ TrimWait \/ TrimCheckSize
  \/ TrimReprobe

SpecTrim == InitTrim /\ [][NextTrim]_vars

TrimReturned == tpc \in {"done", "failed"}

-----------------------------------------------------------------------------
\* Properties of trim_media.

ArgsBuilt == tloc.args # <<>>
Has(args, a) == \E i \in DOMAIN args : args[i] = a
Count(args, a) == Cardinality({i \in DOMAIN args : args[i] = a})
CountForm(args, form) == Cardinality({i \in DOMAIN args : args[i][1] = form})
IndexOf(args, a) == CHOOSE i \in DOMAIN args : args[i] = a
\* a immediately followed by b
Followed(args, a, b) ==
  \E i \in DOMAIN args : i < Len(args) /\ args[i] = a /\ args[i + 1] = b

NothingStarted ==
  /\ tobs.inspectors = 0
  /\ tobs.encoders = 0
  /\ tobs.exit = "none"
  /\ ~tobs.file.some
  /\ tloc.output_path = NoPath

C4_OutNotAfterIn(i, o) ==
  i.ok /\ o.ok /\ ~i.v.nan /\ ~o.v.nan /\ o.v.ms <= i.v.ms
C4_BadCall ==
  \/ tin.input_path.kind # "file"
  \/ ToLowercase(TrimStr(tin.mode)) \notin {M_lossless, M_exact}
  \/ C4_OutNotAfterIn(parse_hh_mm_ss_with_millis(tin.in_time),
                      parse_hh_mm_ss_with_millis(tin.out_time))
C4_ValidationErrors ==
  {"no_input", "not_a_file", "bin_dir", "in_time", "out_time",
   "out_not_after_in", "mode"}

\* C4: a call whose input path is missing or not a regular file, whose mode
\* (trimmed, lowercased) is neither "lossless" nor "exact", or whose out_time
\* is equal to or less than its in_time never gets past validation: it
\* returns a validation error, and no inspector or encoder is spawned and no
\* output file is named or written.
C4_ValidationRejects ==
  C4_BadCall =>
    /\ tpc \in {"validating", "failed"}
    /\ NothingStarted
    /\ tpc = "failed" =>
         /\ tobs.result.status = "err"
         /\ tobs.result.err \in C4_ValidationErrors

\* an existing file, a valid mode, and out_time equal to in_time: rejected
C4_Witness ==
  /\ tin.input_path.kind = "file"
  /\ tin.ffmpeg_bin_dir = ""
  /\ tin.mode = M_Exact_padded
  /\ tin.in_time = T_5 /\ tin.out_time = T_5
  /\ tpc = "failed"
  /\ tobs.result = TrimErr("out_not_after_in")
  /\ NothingStarted

C6_LosslessRefusesRotation ==
  (tloc.mode = M_lossless /\ tloc.rotation_degrees # 0) =>
    /\ tloc.rotation_degrees \in {90, 180, 270}
    /\ tpc = "failed"
    /\ tobs.result = TrimErr("rotated")
    /\ tobs.encoders = 0
    /\ ~ArgsBuilt

\* lossless on an input whose rotate tag is -90, that is 270
C6_Witness ==
  /\ tin.mode = M_lossless
  /\ tloc.rotation_degrees = 270
  /\ tobs.inspectors = 1
  /\ tpc = "failed"
  /\ tobs.result = TrimErr("rotated")

\* C7: in the argument list, a non-negative audio selector k appears as
\* -map 0:a:k (the k-th audio stream, not a global index), a negative one as
\* -an with no audio map; exactly one of the two forms is there.
C7_AudioSelection ==
  ArgsBuilt =>
    /\ Count(tloc.args, Lit("-an")) + CountForm(tloc.args, "0:a:") = 1
    /\ IF tin.audio_stream_index >= 0
       THEN Followed(tloc.args, Lit("-map"), <<"0:a:", tin.audio_stream_index>>)
       ELSE Has(tloc.args, Lit("-an"))

\* the selector 0, the first audio stream, is mapped
C7_Witness ==
  /\ ArgsBuilt
  /\ tin.audio_stream_index = 0
  /\ Followed(tloc.args, Lit("-map"), <<"0:a:", 0>>)
  /\ ~Has(tloc.args, Lit("-an"))

\* C8: in lossless mode the argument list has no subtitle map and no
\* subtitle codec flag -c:s, whatever the subtitle selector is.
C8_LosslessNoSubtitles ==
  (ArgsBuilt /\ tloc.mode = M_lossless) =>
    /\ CountForm(tloc.args, "0:") = 0
    /\ ~Has(tloc.args, Lit("-c:s"))

\* lossless with the subtitle stream 3 selected
C8_Witness ==
  /\ ArgsBuilt
  /\ tloc.mode = M_lossless
  /\ tin.subtitle_stream_index = 3
  /\ tobs.encoders = 1

C9_Args == tloc.args
C9_At(a) == IndexOf(C9_Args, a)
\* C9: in both modes the seek flag -ss with in_time comes before the input
\* flag -i, and -t with (out_time - in_time) comes after the input; no
\* end-time flag is used. Exact mode has -accurate_seek right before -ss;
\* lossless mode never has it.
C9_SeekBeforeInput ==
  ArgsBuilt =>
    /\ Count(C9_Args, Lit("-ss")) = 1
    /\ Count(C9_Args, Lit("-i")) = 1
    /\ Count(C9_Args, Lit("-t")) = 1
    /\ ~Has(C9_Args, Lit("-to"))
    /\ C9_At(Lit("-ss")) < C9_At(Lit("-i"))
    /\ C9_At(Lit("-i")) + 1 < C9_At(Lit("-t"))
    /\ Followed(C9_Args, Lit("-ss"), ArgSecs(tloc.in_seconds))
    /\ Followed(C9_Args, Lit("-i"), <<"input_path", 0>>)
    /\ Followed(C9_Args, Lit("-t"),
                ArgSecs(F64Sub(tloc.out_seconds, tloc.in_seconds)))
    /\ IF tloc.mode = M_lossless
       THEN ~Has(C9_Args, Lit("-accurate_seek"))
       ELSE Followed(C9_Args, Lit("-accurate_seek"), Lit("-ss"))

\* exact mode from 0 to 5.5 s on rotated input: -noautorotate sits between
\* the seek and the input
C9_Witness ==
  /\ ArgsBuilt
  /\ tloc.mode = M_exact
  /\ tin.in_time = T_0 /\ tin.out_time = T_5
  /\ Has(tloc.args, Lit("-noautorotate"))
  /\ Followed(tloc.args, Lit("-t"), <<"{:.6}", 5500>>)

C10_Mp4Like ==
  ToLowercase(tloc.output_path.extension.v) \in {E_mp4, E_m4v, E_mov}
\* C10: lossless mode has -c copy and exactly one timestamp set, chosen by
\* the output extension: mp4, m4v or mov in any case gets
\* -avoid_negative_ts make_zero -fflags +genpts and no -copyts; any other
\* gets -copyts -avoid_negative_ts make_zero and no +genpts. Exact mode has
\* neither set.
C10_TimestampFixups ==
  ArgsBuilt =>
    IF tloc.mode = M_lossless
    THEN /\ Followed(tloc.args, Lit("-c"), Lit("copy"))
         /\ Count(tloc.args, Lit("-avoid_negative_ts")) = 1
         /\ Followed(tloc.args, Lit("-avoid_negative_ts"), Lit("make_zero"))
         /\ IF C10_Mp4Like
            THEN /\ Followed(tloc.args, Lit("make_zero"), Lit("-fflags"))
                 /\ Followed(tloc.args, Lit("-fflags"), Lit("+genpts"))
                 /\ ~Has(tloc.args, Lit("-copyts"))
            ELSE /\ Followed(tloc.args, Lit("-copyts"), Lit("-avoid_negative_ts"))
                 /\ ~Has(tloc.args, Lit("-fflags"))
                 /\ ~Has(tloc.args, Lit("+genpts"))
    ELSE /\ ~Has(tloc.args, Lit("-copyts"))
         /\ ~Has(tloc.args, Lit("-avoid_negative_ts"))
         /\ ~Has(tloc.args, Lit("make_zero"))
         /\ ~Has(tloc.args, Lit("-fflags"))
         /\ ~Has(tloc.args, Lit("+genpts"))

\* lossless on an input named *.MOV: the mp4 set
C10_Witness ==
  /\ ArgsBuilt
  /\ tloc.mode = M_lossless
  /\ tloc.output_path.extension = Ext(E_MOV)
  /\ Has(tloc.args, Lit("+genpts"))
  /\ ~Has(tloc.args, Lit("-copyts"))

\* C11: in exact mode a non-negative subtitle selector g gives the generic
\* map -map 0:g (the global index g), -c:s copy and -shortest; a negative
\* one gives none of the three; -c:a copy is there exactly when an audio
\* stream is selected.
C11_ExactSubtitleCopy ==
  (ArgsBuilt /\ tloc.mode = M_exact) =>
    /\ IF tin.subtitle_stream_index >= 0
       THEN /\ Followed(tloc.args, Lit("-map"), <<"0:", tin.subtitle_stream_index>>)
            /\ CountForm(tloc.args, "0:") = 1
            /\ Followed(tloc.args, Lit("-c:s"), Lit("copy"))
            /\ Count(tloc.args, Lit("-shortest")) = 1
       ELSE /\ CountForm(tloc.args, "0:") = 0
            /\ ~Has(tloc.args, Lit("-c:s"))
            /\ ~Has(tloc.args, Lit("-shortest"))
    /\ Followed(tloc.args, Lit("-c:a"), Lit("copy")) <=> tin.audio_stream_index >= 0

\* exact mode, the stream of global index 3 as subtitle, no audio
C11_Witness ==
  /\ ArgsBuilt
  /\ tloc.mode = M_exact
  /\ tin.subtitle_stream_index = 3
  /\ tin.audio_stream_index = -1
  /\ Followed(tloc.args, Lit("-map"), <<"0:", 3>>)
  /\ Has(tloc.args, Lit("-shortest"))
  /\ ~Has(tloc.args, Lit("-c:a"))

-----------------------------------------------------------------------------
\* A spawned child with piped stdout and stderr, and the operation that
\* spawned it: probe_duration and probe_media (drain threads, then wait),
\* and trim_media (progress loop, wait, then the diagnostic stream).
\* A pipe holds a bounded number of chunks; a write to a full pipe blocks
\* the child; a read on an empty pipe returns end-of-file once the child has
\* exited. Reads that fail are not modelled.

PipeCapacity == 1
\* the most a child writes to one stream: more than the pipe holds
MaxChunks == PipeCapacity + 1

Streams == {"stdout", "stderr"}
PipeProbes == {"probe_duration", "probe_media"}
PipeOps == PipeProbes \cup {"trim_media"}

pipeOthers == <<probeVars, streamVars, trimVars, preflightVars, resolveVars, moreVars, threadVars>>

ChildExited == xchild.pc = "exited"

\* the child turns to its next write
PipeChildChoose(s) ==
  /\ xchild.pc = "running"
  /\ xchild.left[s] > 0
  /\ xchild' = [xchild EXCEPT !.pc = s]
  /\ UNCHANGED <<xop, xpc, xpipe, xthreads, pipeOthers>>

\* the write completes when the pipe has room
PipeChildWrite(s) ==
  /\ xchild.pc = s
  /\ xpipe[s] < PipeCapacity
  /\ xpipe' = [xpipe EXCEPT ![s] = @ + 1]
  /\ xchild' = [xchild EXCEPT !.pc = "running", !.left[s] = @ - 1]
  /\ UNCHANGED <<xop, xpc, xthreads, pipeOthers>>

\* the child exits, which closes its ends of both pipes
PipeChildExit ==
  /\ xchild.pc = "running"
  /\ \A s \in Streams : xchild.left[s] = 0
  /\ xchild' = [xchild EXCEPT !.pc = "exited"]
  /\ UNCHANGED <<xop, xpc, xpipe, xthreads, pipeOthers>>

\* PipeProbeSpawnDrains starting a thread for stdout only
PipeProbeSpawnStdoutDrain ==
  /\ xop \in PipeProbes
  /\ xpc = "spawned"
  /\ xthreads' = [xthreads EXCEPT !["stdout"] = "reading"]
  /\ xpc' = "waiting"
  /\ UNCHANGED <<xop, xchild, xpipe, pipeOthers>>

\* the probes start one thread per stream, before child.wait()
PipeProbeSpawnDrains ==
  /\ xop \in PipeProbes
  /\ xpc = "spawned"
  /\ xthreads' = [s \in Streams |-> "reading"]
  /\ xpc' = "waiting"
  /\ UNCHANGED <<xop, xchild, xpipe, pipeOthers>>

\* a drain thread's read takes a chunk
PipeDrainRead(s) ==
  /\ xthreads[s] = "reading"
  /\ xpipe[s] > 0
  /\ xpipe' = [xpipe EXCEPT ![s] = @ - 1]
  /\ UNCHANGED <<xop, xpc, xchild, xthreads, pipeOthers>>

\* Ok(0): the thread sends what it read and ends
PipeDrainEof(s) ==
  /\ xthreads[s] = "reading"
  /\ xpipe[s] = 0
  /\ ChildExited
  /\ xthreads' = [xthreads EXCEPT ![s] = "sent"]
  /\ UNCHANGED <<xop, xpc, xchild, xpipe, pipeOthers>>

\* child.wait() in the probes
PipeProbeWait ==
  /\ xop \in PipeProbes
  /\ xpc = "waiting"
  /\ ChildExited
  /\ xpc' = "recv_stdout"
  /\ UNCHANGED <<xop, xchild, xpipe, xthreads, pipeOthers>>

\* stdout_rx.recv()
PipeProbeRecvStdout ==
  /\ xpc = "recv_stdout"
  /\ xthreads["stdout"] = "sent"
  /\ xpc' = "recv_stderr"
  /\ UNCHANGED <<xop, xchild, xpipe, xthreads, pipeOthers>>

\* stderr_rx.recv(), after which the probe goes on to its result
PipeProbeRecvStderr ==
  /\ xpc = "recv_stderr"
  /\ xthreads["stderr"] = "sent"
  /\ xpc' = "returned"
  /\ UNCHANGED <<xop, xchild, xpipe, xthreads, pipeOthers>>

\* trim_media takes stdout and enters the progress loop, on its own thread
PipeTrimTakeStdout ==
  /\ xop = "trim_media"
  /\ xpc = "spawned"
  /\ xpc' = "reading_stdout"
  /\ UNCHANGED <<xop, xchild, xpipe, xthreads, pipeOthers>>

\* reader.lines(): a line of progress
PipeTrimReadLine ==
  /\ xpc = "reading_stdout"
  /\ xpipe["stdout"] > 0
  /\ xpipe' = [xpipe EXCEPT !["stdout"] = @ - 1]
  /\ UNCHANGED <<xop, xpc, xchild, xthreads, pipeOthers>>

\* the progress loop ends when stdout closes
PipeTrimStdoutEof ==
  /\ xpc = "reading_stdout"
  /\ xpipe["stdout"] = 0
  /\ ChildExited
  /\ xpc' = "waiting"
  /\ UNCHANGED <<xop, xchild, xpipe, xthreads, pipeOthers>>

\* child.wait() in trim_media
PipeTrimWait ==
  /\ xop = "trim_media"
  /\ xpc = "waiting"
  /\ ChildExited
  /\ xpc' = "reading_stderr"
  /\ UNCHANGED <<xop, xchild, xpipe, xthreads, pipeOthers>>

\* read_to_end on stderr, after the wait
PipeTrimReadStderr ==
  /\ xpc = "reading_stderr"
  /\ xpipe' = [xpipe EXCEPT !["stderr"] = 0]
  /\ xpc' = "returned"
  /\ UNCHANGED <<xop, xchild, xthreads, pipeOthers>>

ChildOutputs == [Streams -> 0..MaxChunks]

InitPipes ==
  /\ ThreadIdle
  /\ ProbeIdle /\ StreamsIdle /\ TrimIdle /\ PreflightIdle /\ ResolveIdle /\ MoreIdle
  /\ xop \in PipeOps
  /\ xpc = "spawned"
  /\ \E total \in ChildOutputs :
       xchild = [pc |-> "running", left |-> total, total |-> total]
  /\ xpipe = [s \in Streams |-> 0]
  /\ xthreads = [s \in Streams |-> "none"]

PipeChild == PipeChildExit \/ \E s \in Streams : PipeChildChoose(s) \/ PipeChildWrite(s)
PipeDrain(s) == PipeDrainRead(s) \/ PipeDrainEof(s)
PipeParent ==
  \/ PipeProbeSpawnDrains \/ PipeProbeWait \/ PipeProbeRecvStdout
  \/ PipeProbeRecvStderr \/ PipeTrimTakeStdout \/ PipeTrimReadLine
  \/ PipeTrimStdoutEof \/ PipeTrimWait \/ PipeTrimReadStderr

NextPipes ==
  \/ PipeChildExit
  \/ \E s \in Streams : PipeChildChoose(s)
  \/ \E s \in Streams : PipeChildWrite(s)
  \/ \E s \in Streams : PipeDrainRead(s)
  \/ \E s \in Streams : PipeDrainEof(s)
  \/ PipeProbeSpawnDrains \/ PipeProbeWait \/ PipeProbeRecvStdout
  \/ PipeProbeRecvStderr \/ PipeTrimTakeStdout \/ PipeTrimReadLine
  \/ PipeTrimStdoutEof \/ PipeTrimWait \/ PipeTrimReadStderr

SpecPipes == InitPipes /\ [][NextPipes]_vars

\* the child, each drain thread and the operation are all scheduled
SpecPipesFair ==
  /\ SpecPipes
  /\ WF_vars(PipeChild)
  /\ \A s \in Streams : WF_vars(PipeDrain(s))
  /\ WF_vars(PipeParent)

PipeReturned == xpc = "returned"
\* the operation is blocked in child.wait()
PipeWaiting == xpc = "waiting"

\* C12: in probe_duration and probe_media both drain threads are running
\* whenever the operation is blocked waiting for the inspector's exit, and
\* whatever the inspector writes to either stream (more than a pipe holds,
\* on both) the probe gets past the wait and the two receives.
C12_ProbesDrainBeforeWait ==
  xop \in PipeProbes =>
    /\ [](PipeWaiting => \A s \in Streams : xthreads[s] # "none")
    /\ <>PipeReturned

\* probe_media is through after the inspector wrote more than a pipe holds
\* to both streams
C12_Witness ==
  /\ xop = "probe_media"
  /\ PipeReturned
  /\ \A s \in Streams : xchild.total[s] > PipeCapacity
  /\ \A s \in Streams : xthreads[s] = "sent"

\* C13: a trim never blocks forever: whatever the encoder writes to stdout
\* and stderr, trim_media gets past the progress loop, the wait and the
\* diagnostic stream.
C13_TrimNeverBlocks == xop = "trim_media" => <>PipeReturned

\* the stages of a trim, numbered in their order: naming the output belongs
\* to validation, the duration re-probe to output validation
C14_Rank(stage) ==
  CASE stage \in {"validating", "naming"} -> 1
    [] stage = "resolving" -> 2
    [] stage = "rotation" -> 3
    [] stage = "building" -> 4
    [] stage = "spawning" -> 5
    [] stage = "draining" -> 6
    [] stage = "waiting" -> 7
    [] stage \in {"checking", "reprobing"} -> 8
    [] stage = "done" -> 9
    [] OTHER -> 0

\* C14: a trim goes through validation, binary resolution, rotation probe,
\* argument building, encoder spawn, output draining, wait for exit, output
\* validation and done in that order, one after the other, or stops in a
\* failure; the encoder is spawned only from the spawn stage, which comes
\* after validation and the rotation probe, and the size check and the
\* duration re-probe run only after the wait returned a successful exit.
C14_StageOrder ==
  [][ /\ tpc \notin {"done", "failed"}
      /\ \/ tpc' = "failed"
         \/ C14_Rank(tpc') = C14_Rank(tpc)
         \/ C14_Rank(tpc') = C14_Rank(tpc) + 1
      /\ tobs'.encoders > tobs.encoders =>
           tpc = "spawning" /\ tobs.encoders = 0
      /\ tpc' \in {"checking", "reprobing"} =>
           tobs'.exit = "success" /\ tobs'.encoders = 1
    ]_vars

\* a trim that went through every stage: two inspector runs (rotation,
\* duration re-probe), one encoder, a result
C14_Witness ==
  /\ tpc = "done"
  /\ tobs.inspectors = 2
  /\ tobs.encoders = 1
  /\ tobs.exit = "success"
  /\ tobs.result.status = "ok"
  /\ ArgsBuilt

-----------------------------------------------------------------------------
\* The binary-directory hint in the probe commands.

\* C15: a probe command given a hint that validate_ffmpeg_bin_dir rejects
\* fails, having spawned no process, whatever the probe cache holds.
C15_BadHintFails ==
  (result.op # "" /\ ~result.hint_ok) =>
    /\ ~result.ok
    /\ result.spawned = 0

-----------------------------------------------------------------------------
\* Binary resolution: resolve_ffmpeg_binaries_with_fallback over the
\* directories of one machine.  rin is the hint and what the file system and
\* the environment hold; rout is the triple the function returned.

\* `if i >= 20 { break; }` in auto_detect_ffmpeg_bin_dir
ScanLimit == 20

\* positions of a directory listing whose entry is drawn; every other
\* entry is a plain file
Positions == {0, ScanLimit - 1, ScanLimit}
EntryKinds == {"file", "versioned_ok", "versioned_no_bin"}
Listings ==
  {l \in [Positions -> EntryKinds] :
     \A i \in Positions \ {0} : l[i] # "versioned_no_bin"}
NoListing == [i \in Positions |-> "file"]

EnvKeys == <<"VIDEO_TRIM_FFMPEG_BIN_DIR", "FFMPEG_BIN_DIR">>
\* a variable is unset, names a directory without both executables, or
\* names one with both
EnvStates == {"unset", "set_bad", "set_good"}

ResolveHints == {<<>>, <<" ">>, <<" ", "d", " ">>}

\* a directory: where it comes from and, for a hint, its text
Dir(kind, at, entry, text) ==
  [kind |-> kind, at |-> at, entry |-> entry, text |-> text]
NoDir == Dir("", "", 0, <<>>)
BareName(name) == [dir |-> NoDir, name |-> name]

resolve_ffmpeg_binaries(dir) ==
  IF dir = NoDir
    THEN <<BareName("ffmpeg"), BareName("ffprobe")>>
    ELSE <<[dir |-> dir, name |-> "ffmpeg.exe"],
           [dir |-> dir, name |-> "ffprobe.exe"]>>

\* %LOCALAPPDATA%\Clip Wave\bin, then <exe dir>\bin
get_bundled_ffmpeg_dir(env) ==
  IF env.localappdata = "yes" THEN Dir("bundled", "localappdata", 0, <<>>)
  ELSE IF env.exe # "err" /\ env.exe_bin THEN Dir("bundled", "exe", 0, <<>>)
  ELSE NoDir

\* the first of the two variables that names a directory with both
\* executables
EnvDir(env) ==
  LET good == {k \in 1..Len(EnvKeys) : env.vars[k] = "set_good"}
  IN IF good = {} THEN NoDir
     ELSE Dir("env", EnvKeys[CHOOSE k \in good : \A j \in good : k <= j], 0, <<>>)

\* paths of the two roots as component lists; the parent is a proper
\* prefix of the executable's directory
RootPath(r) == IF r = "parent" THEN <<"p">> ELSE <<"p", "app">>
PathLess(a, b) ==
  /\ Len(a) < Len(b)
  /\ \A i \in 1..Len(a) : a[i] = b[i]

\* roots.sort(); roots.dedup()
SortedRoots(env) ==
  LET roots == IF env.exe = "err" THEN {}
               ELSE IF env.exe = "root" THEN {"exe"}
               ELSE {"exe", "parent"}
      first == CHOOSE r \in roots : \A q \in roots \ {r} : PathLess(RootPath(r), RootPath(q))
  IN IF roots = {} THEN <<>>
     ELSE IF Cardinality(roots) = 1 THEN <<"exe">>
     ELSE <<first, CHOOSE q \in roots : q # first>>

RootBin(env, r) == IF r = "exe" THEN env.exe_bin ELSE env.parent_bin

\* a scan that also looks at entry number ScanLimit
ScanEntriesOneMore(listing) ==
  LET hits == {i \in Positions : i <= ScanLimit /\ listing[i] = "versioned_ok"}
  IN IF hits = {} THEN -1 ELSE CHOOSE i \in hits : \A j \in hits : i <= j

\* the first entry, among the first ScanLimit, that is a versioned folder
\* whose bin has both executables; -1 when there is none
ScanEntries(listing) ==
  LET hits == {i \in Positions : i < ScanLimit /\ listing[i] = "versioned_ok"}
  IN IF hits = {} THEN -1 ELSE CHOOSE i \in hits : \A j \in hits : i <= j

ScanRoot(env, r) ==
  IF RootBin(env, r) THEN Dir("root_bin", r, 0, <<>>)
  ELSE IF ScanEntries(env.listing[r]) >= 0
    THEN Dir("versioned", r, ScanEntries(env.listing[r]), <<>>)
  ELSE NoDir

RECURSIVE ScanRoots(_, _)
ScanRoots(env, roots) ==
  IF roots = <<>> THEN NoDir
  ELSE IF ScanRoot(env, Head(roots)) # NoDir THEN ScanRoot(env, Head(roots))
  ELSE ScanRoots(env, Tail(roots))

auto_detect_ffmpeg_bin_dir(env) ==
  IF get_bundled_ffmpeg_dir(env) # NoDir THEN get_bundled_ffmpeg_dir(env)
  ELSE IF EnvDir(env) # NoDir THEN EnvDir(env)
  ELSE ScanRoots(env, SortedRoots(env))

resolve_ffmpeg_binaries_with_fallback(env) ==
  LET dir_str == TrimStr(env.hint)
      dir == IF dir_str # <<>> THEN Dir("hint", "", 0, dir_str)
             ELSE auto_detect_ffmpeg_bin_dir(env)
      bins == resolve_ffmpeg_binaries(dir)
  IN [called |-> TRUE, ffmpeg |-> bins[1], ffprobe |-> bins[2], dir_used |-> dir]

NotResolved ==
  [called |-> FALSE, ffmpeg |-> BareName(""), ffprobe |-> BareName(""), dir_used |-> NoDir]

\* the machines: without a running-executable path there are no roots, and
\* an executable in the root directory has no parent
Machines ==
  {e \in [hint : ResolveHints,
          localappdata : {"unset", "no", "yes"},
          exe : {"err", "root", "nested"},
          exe_bin : BOOLEAN,
          parent_bin : BOOLEAN,
          vars : [1..Len(EnvKeys) -> EnvStates],
          listing : [{"exe", "parent"} -> Listings]] :
     /\ e.exe = "err" => ~e.exe_bin /\ e.listing["exe"] = NoListing
     /\ e.exe # "nested" => ~e.parent_bin /\ e.listing["parent"] = NoListing}

resolveOthers == <<probeVars, streamVars, trimVars, pipeVars, preflightVars, moreVars, threadVars>>

InitResolve ==
  /\ ThreadIdle
  /\ ProbeIdle /\ StreamsIdle /\ TrimIdle /\ PipesIdle /\ PreflightIdle /\ MoreIdle
  /\ rin \in Machines
  /\ rout = NotResolved

Resolve ==
  /\ ~rout.called
  /\ rout' = resolve_ffmpeg_binaries_with_fallback(rin)
  /\ UNCHANGED <<rin, resolveOthers>>

NextResolve == Resolve

SpecResolve == InitResolve /\ [][NextResolve]_vars

\* what the machine holds, read off rin without the resolution code
C16_Bundled(e) == e.localappdata = "yes" \/ (e.exe # "err" /\ e.exe_bin)
C16_Roots(e) ==
  IF e.exe = "err" THEN {} ELSE IF e.exe = "root" THEN {"exe"} ELSE {"exe", "parent"}
C16_HasBin(e, r) == IF r = "exe" THEN e.exe_bin ELSE e.parent_bin
C16_Versioned(e, r, scanned) ==
  {i \in scanned : e.listing[r][i] = "versioned_ok"}
C16_RootQualifies(e, scanned) ==
  \E r \in C16_Roots(e) : C16_HasBin(e, r) \/ C16_Versioned(e, r, scanned) # {}

\* the priority order, counting a versioned folder as available when it is
\* at one of the scanned positions of its root's listing
C16_Priority(scanned) ==
  rout.called =>
    LET e == rin
        h == TrimStr(e.hint)
        d == rout.dir_used
    IN /\ rout.ffmpeg = IF d = NoDir THEN BareName("ffmpeg")
                        ELSE [dir |-> d, name |-> "ffmpeg.exe"]
       /\ rout.ffprobe = IF d = NoDir THEN BareName("ffprobe")
                         ELSE [dir |-> d, name |-> "ffprobe.exe"]
       /\ IF h # <<>> THEN d.kind = "hint" /\ d.text = h
          ELSE IF C16_Bundled(e) THEN d.kind = "bundled"
          ELSE IF e.vars[1] = "set_good"
            THEN d.kind = "env" /\ d.at = "VIDEO_TRIM_FFMPEG_BIN_DIR"
          ELSE IF e.vars[2] = "set_good"
            THEN d.kind = "env" /\ d.at = "FFMPEG_BIN_DIR"
          ELSE IF C16_RootQualifies(e, scanned)
            THEN /\ d.kind \in {"root_bin", "versioned"}
                 /\ d.at \in C16_Roots(e)
                 /\ d.kind = "root_bin" => C16_HasBin(e, d.at)
                 /\ d.kind = "versioned" =>
                      /\ ~C16_HasBin(e, d.at)
                      /\ d.entry \in C16_Versioned(e, d.at, scanned)
                      /\ \A i \in C16_Versioned(e, d.at, scanned) : d.entry <= i
          ELSE d = NoDir

-----------------------------------------------------------------------------
\* The lossless preflight: lossless_preflight_sync and the keyframe locator
\* find_surrounding_keyframes.  Times of the request are milliseconds (Secs);
\* timestamps the inspector prints are tenths of a millisecond, so that the
\* locator's rounding to milliseconds is a real step.

\* let windows = [60.0, 600.0, 3600.0], in seconds
KeyframeWindows == <<60, 600, 3600>>

\* timestamps an answer of the inspector may hold: 4.0 s, 4.9996 s, 6.0 s
Stamps == {40000, 49996, 60000}
\* run_ffprobe_keyframes returns Err (not started, non-zero exit, invalid
\* JSON) or the timestamps it parsed; which, is the inspector's choice
NoAnswer == [ok |-> FALSE, times |-> {}]
Answer(times) == [ok |-> TRUE, times |-> times]
InspectorAnswers == {NoAnswer} \cup {Answer(ts) : ts \in SUBSET Stamps}
\* an inspector that cannot be started answers no query
AnswersOf(inspector) ==
  IF inspector = "unavailable" THEN {NoAnswer} ELSE InspectorAnswers

\* (v * 1000.0).round() / 1000.0 on a timestamp that is not negative
RoundMillis(t) == (t + 5) \div 10

SetMax(S) == CHOOSE x \in S : \A y \in S : y <= x
SetMin(S) == CHOOSE x \in S : \A y \in S : x <= y

\* times.last() after the sort
PrevIn(answer) ==
  IF answer.ok /\ answer.times # {} THEN Some(SetMax(answer.times)) ELSE None

\* the first t of the sorted times with t + 1e-6 >= target; nothing
\* compares with a target that is not a number
NextIn(answer, target) ==
  LET late == {t \in answer.times : ~target.nan /\ t >= 10 * target.ms}
  IN IF answer.ok /\ late # {} THEN Some(SetMin(late)) ELSE None

\* a loop over the windows that goes on after a keyframe was found
NextWindowNoBreak(w, found) ==
  IF w < Len(KeyframeWindows) THEN w + 1 ELSE 0

\* the window to query after window number w: none (0) after the `break`
\* and after the last window
NextWindow(w, found) ==
  IF found.some THEN 0
  ELSE IF w < Len(KeyframeWindows) THEN w + 1 ELSE 0

\* a preflight that searches for every in-point
InPointAtStartNever(in_seconds) == FALSE

\* if in_seconds <= 0.0
InPointAtStart(in_seconds) == F64Le(in_seconds, Secs(0))

\* a start shift that is the plain difference
StartShiftUnclamped(nearest, in_seconds) ==
  IF nearest.some THEN Some(in_seconds.ms - nearest.v) ELSE None

\* nearest.map(|kf| if kf <= in_seconds { (in_seconds - kf).max(0.0) } else { 0.0 })
StartShift(nearest, in_seconds) ==
  IF ~nearest.some THEN None
  ELSE IF F64Le(Secs(nearest.v), in_seconds)
    THEN Some(IF in_seconds.ms - nearest.v >= 0 THEN in_seconds.ms - nearest.v ELSE 0)
  ELSE Some(0)

\* an end shift of zero when no next keyframe was found
EndShiftOrZero(out_next, out_seconds) ==
  IF ~out_next.some THEN Some(0)
  ELSE IF F64Lt(out_seconds, Secs(out_next.v))
    THEN Some(IF out_next.v - out_seconds.ms >= 0 THEN out_next.v - out_seconds.ms ELSE 0)
  ELSE Some(0)

\* out_next.map(|kf| if kf > out_seconds + 1e-6 { (kf - out_seconds).max(0.0) } else { 0.0 })
EndShift(out_next, out_seconds) ==
  IF ~out_next.some THEN None
  ELSE IF F64Lt(out_seconds, Secs(out_next.v))
    THEN Some(IF out_next.v - out_seconds.ms >= 0 THEN out_next.v - out_seconds.ms ELSE 0)
  ELSE Some(0)

T_5s == <<"0","0",":","0","0",":","0","5">>
\* the <<in_time, out_time>> pairs drawn; the preflight does not compare
\* the two
PreflightTimes ==
  {<<T_0, T_5>>, <<T_0, T_0>>, <<T_5s, T_5>>, <<T_5s, T_0>>, <<T_bad, T_5>>,
   <<T_5s, T_bad>>, <<T_nan, T_5>>}
PreflightCalls ==
  [input_ok : BOOLEAN, hint : Hints, times : PreflightTimes,
   inspector : {"works", "unavailable"}]

PreflightLocals0 ==
  [in_seconds |-> NaN, out_seconds |-> NaN, target |-> "", w |-> 0,
   side |-> "", target_seconds |-> NaN, times |-> NoAnswer, found |-> None,
   nearest |-> None, next |-> None, out_prev |-> None, out_next |-> None]
PreflightNoResult ==
  [status |-> "", err |-> "", nearest |-> None, next |-> None, start_shift |-> None,
   out_prev |-> None, out_next |-> None, end_shift |-> None]
PreflightObserved0 == [queries |-> <<>>, result |-> PreflightNoResult]

preflightOthers == <<probeVars, streamVars, trimVars, pipeVars, resolveVars, moreVars, threadVars>>

PreflightFail(err) ==
  /\ kpc' = "failed"
  /\ kobs' = [kobs EXCEPT !.result = [PreflightNoResult EXCEPT !.status = "err", !.err = err]]
  /\ UNCHANGED kloc

\* the seconds of the target the locator is working on
TargetSeconds == IF kloc.target = "in" THEN kloc.in_seconds ELSE kloc.out_seconds

\* lossless_preflight: spawn_blocking hands lossless_preflight_sync to a
\* thread of the blocking pool and awaits it
PreflightOffload ==
  /\ kpc = "invoked"
  /\ kpc' = "validating"
  /\ othread' = "blocking_pool"
  /\ UNCHANGED <<kin, kloc, kobs, probeVars, streamVars, trimVars, pipeVars,
                 resolveVars, moreVars>>

\* lines 1937-1951: validation, parsing, resolution and the in-point branch
PreflightEnter ==
  /\ kpc = "validating"
  /\ LET i == parse_hh_mm_ss_with_millis(kin.times[1])
         o == parse_hh_mm_ss_with_millis(kin.times[2])
     IN IF ~kin.input_ok THEN PreflightFail("input")
        ELSE IF ~HintOk(kin.hint) THEN PreflightFail("hint")
        ELSE IF ~i.ok \/ ~o.ok THEN PreflightFail("time")
        ELSE /\ kpc' = "prev"
             /\ kloc' = IF InPointAtStart(i.v)
                  THEN [kloc EXCEPT !.in_seconds = i.v, !.out_seconds = o.v,
                                    !.nearest = Some(0), !.next = Some(0),
                                    !.target = "out", !.w = 1]
                  ELSE [kloc EXCEPT !.in_seconds = i.v, !.out_seconds = o.v,
                                    !.target = "in", !.w = 1]
             /\ UNCHANGED kobs
  /\ UNCHANGED <<kin, preflightOthers>>

\* one pass of the first loop: a query for the keyframe at or before the
\* target; `target_seconds`, `times` and `found` are the locals `target`,
\* `times` and `prev` (`next` in the second loop) of the pass, before the
\* rounding
PreflightQueryPrev ==
  /\ kpc = "prev"
  /\ \E answer \in AnswersOf(kin.inspector) :
       LET found == PrevIn(answer)
           rounded == IF found.some THEN Some(RoundMillis(found.v)) ELSE None
           w2 == NextWindow(kloc.w, found)
       IN /\ kobs' = [kobs EXCEPT !.queries = Append(@,
                        [target |-> kloc.target, side |-> "prev",
                         window |-> KeyframeWindows[kloc.w], hit |-> found.some])]
          /\ kloc' = LET l == IF ~found.some THEN kloc
                              ELSE IF kloc.target = "in"
                                THEN [kloc EXCEPT !.nearest = rounded]
                              ELSE [kloc EXCEPT !.out_prev = rounded]
                     IN [l EXCEPT !.w = IF w2 = 0 THEN 1 ELSE w2, !.side = "prev",
                                  !.target_seconds = TargetSeconds,
                                  !.times = answer, !.found = found]
          /\ kpc' = IF w2 = 0 THEN "next" ELSE "prev"
  /\ UNCHANGED <<kin, preflightOthers>>

\* one pass of the second loop: a query for the keyframe at or after the
\* target; after the last one for the in-point the out-point is searched,
\* after the last one for the out-point the result is built
PreflightQueryNext ==
  /\ kpc = "next"
  /\ \E answer \in AnswersOf(kin.inspector) :
       LET found == NextIn(answer, TargetSeconds)
           rounded == IF found.some THEN Some(RoundMillis(found.v)) ELSE None
           w2 == NextWindow(kloc.w, found)
           k == [kloc EXCEPT !.side = "next", !.target_seconds = TargetSeconds,
                             !.times = answer, !.found = found]
           l == IF ~found.some THEN k
                ELSE IF kloc.target = "in" THEN [k EXCEPT !.next = rounded]
                ELSE [k EXCEPT !.out_next = rounded]
           queries == Append(kobs.queries,
                        [target |-> kloc.target, side |-> "next",
                         window |-> KeyframeWindows[kloc.w], hit |-> found.some])
       IN IF w2 # 0
            THEN /\ kloc' = [l EXCEPT !.w = w2]
                 /\ kpc' = "next"
                 /\ kobs' = [kobs EXCEPT !.queries = queries]
          ELSE IF kloc.target = "in"
            THEN /\ kloc' = [l EXCEPT !.w = 1, !.target = "out"]
                 /\ kpc' = "prev"
                 /\ kobs' = [kobs EXCEPT !.queries = queries]
          ELSE /\ kloc' = [l EXCEPT !.w = 0]
               /\ kpc' = "done"
               /\ kobs' = [queries |-> queries,
                           result |-> [status |-> "ok", err |-> "",
                                       nearest |-> l.nearest, next |-> l.next,
                                       start_shift |-> StartShift(l.nearest, l.in_seconds),
                                       out_prev |-> l.out_prev, out_next |-> l.out_next,
                                       end_shift |-> EndShift(l.out_next, l.out_seconds)]]
  /\ UNCHANGED <<kin, preflightOthers>>

InitPreflight ==
  /\ othread = "async_runtime"
  /\ ProbeIdle /\ StreamsIdle /\ TrimIdle /\ PipesIdle /\ ResolveIdle /\ MoreIdle
  /\ kin \in PreflightCalls
  /\ kpc = "invoked"
  /\ kloc = PreflightLocals0
  /\ kobs = PreflightObserved0

NextPreflight ==
  \/ PreflightOffload
  \/ PreflightEnter
  \/ PreflightQueryPrev
  \/ PreflightQueryNext

SpecPreflight == InitPreflight /\ [][NextPreflight]_vars

\* the queries issued for one side of one target, in the order issued
C17_SideQueries(t, sd) ==
  SelectSeq(kobs.queries, LAMBDA q : q.target = t /\ q.side = sd)
\* what the result reports for one side of one target
C17_Reported(t, sd) ==
  IF t = "in" THEN (IF sd = "prev" THEN kobs.result.nearest ELSE kobs.result.next)
  ELSE (IF sd = "prev" THEN kobs.result.out_prev ELSE kobs.result.out_next)

\* C17: for each side of each target the queries are for the windows 60,
\* 600, 3600 in that order, none follows a query that found a keyframe, so
\* there are at most three; a side the locator searched is reported absent
\* only if the 3600 window was queried and found none.
C17_WindowsInOrder ==
  \A t \in {"in", "out"}, sd \in {"prev", "next"} :
    LET qs == C17_SideQueries(t, sd)
    IN /\ Len(qs) <= 3
       /\ \A i \in 1..Len(qs) : qs[i].window = <<60, 600, 3600>>[i]
       /\ \A i \in 1..(Len(qs) - 1) : ~qs[i].hit
       /\ kpc = "done" =>
            /\ ~C17_Reported(t, sd).some =>
                 Len(qs) = 3 /\ qs[3].window = 3600 /\ ~qs[3].hit
            /\ (qs # <<>> /\ qs[Len(qs)].hit) => C17_Reported(t, sd).some

\* a finished preflight whose in-point search found the previous keyframe
\* in the 600 window and no next keyframe in any window
C17_Witness ==
  /\ kpc = "done"
  /\ Len(C17_SideQueries("in", "prev")) = 2
  /\ C17_SideQueries("in", "prev")[2].hit
  /\ Len(C17_SideQueries("in", "next")) = 3
  /\ kobs.result.nearest.some
  /\ ~kobs.result.next.some

\* C18: for a target that is exactly zero, in-point or out-point, no query
\* is issued and both its keyframes are reported as zero.
C18_ZeroTargetNoSearch ==
  \A t \in {"in", "out"} :
    (/\ kpc \in {"prev", "next", "done"}
     /\ (IF t = "in" THEN kloc.in_seconds ELSE kloc.out_seconds) = Secs(0)) =>
      /\ \A i \in 1..Len(kobs.queries) : kobs.queries[i].target # t
      /\ kpc = "done" =>
           C17_Reported(t, "prev") = Some(0) /\ C17_Reported(t, "next") = Some(0)

\* C19: a preflight with in_time zero that passes validation finishes and
\* reports nearest 0, next 0 and start shift 0, whatever the inspector
\* answers and also when it cannot be started.
C19_InZeroReportsZero ==
  kin.times[1] = T_0 =>
    /\ kpc = "failed" =>
         ~kin.input_ok \/ ~HintOk(kin.hint) \/ kin.times[2] = T_bad
    /\ kpc = "done" =>
         /\ kobs.result.status = "ok"
         /\ kobs.result.nearest = Some(0)
         /\ kobs.result.next = Some(0)
         /\ kobs.result.start_shift = Some(0)

\* in_time zero, an inspector that cannot be started, the out-point search
\* finding nothing
C19_Witness ==
  /\ kpc = "done"
  /\ kin.times[1] = T_0
  /\ kin.inspector = "unavailable"
  /\ Len(kobs.queries) = 6
  /\ kobs.result.nearest = Some(0)
  /\ kobs.result.start_shift = Some(0)
  /\ ~kobs.result.out_prev.some

\* C20: the start shift is present exactly when a nearest keyframe is; it
\* is in_time - k when k is at or before in_time and 0 otherwise, never
\* negative; in_time 5.0 with the bracket [4.0, 6.0] gives 1.0.
C20_StartShift ==
  kpc = "done" =>
    LET r == kobs.result
        i == kloc.in_seconds
    IN /\ r.start_shift.some <=> r.nearest.some
       /\ r.nearest.some =>
            /\ r.start_shift.v >= 0
            /\ r.start_shift.v =
                 IF ~i.nan /\ r.nearest.v <= i.ms THEN i.ms - r.nearest.v ELSE 0
       /\ (i = Secs(5000) /\ r.nearest = Some(4000) /\ r.next = Some(6000)) =>
            r.start_shift = Some(1000)

C20_Witness ==
  /\ kpc = "done"
  /\ kloc.in_seconds = Secs(5000)
  /\ kobs.result.nearest = Some(4000)
  /\ kobs.result.next = Some(6000)
  /\ kobs.result.start_shift = Some(1000)

-----------------------------------------------------------------------------
\* Rotation normalisation applied to raw rotation values.

\* raw values run from -MaxDegrees to MaxDegrees: two turns either way
MaxDegrees == 725
RotationInputs == (0 - MaxDegrees)..MaxDegrees

NotNormalized == [called |-> FALSE, degrees |-> 0, filter |-> NoFilter]

rotationOthers ==
  <<probeVars, streamVars, trimVars, pipeVars, preflightVars, resolveVars, progressVars,
    lockVars, threadVars>>

InitRotation ==
  /\ ThreadIdle
  /\ ProbeIdle /\ StreamsIdle /\ TrimIdle
  /\ PipesIdle /\ PreflightIdle /\ ResolveIdle /\ ProgressIdle /\ LockIdle
  /\ nin \in RotationInputs
  /\ nout = NotNormalized

Normalize ==
  /\ ~nout.called
  /\ nout' = [called |-> TRUE,
              degrees |-> normalize_rotation_degrees(nin),
              filter |-> rotation_filter_for_degrees(nin)]
  /\ UNCHANGED <<nin, rotationOthers>>

NextRotation == Normalize

SpecRotation == InitRotation /\ [][NextRotation]_vars

\* C21: the normalised value is one of 0, 90, 180, 270: the residue of the
\* raw value modulo 360, taken in 0..359, when that residue is one of the
\* four, and 0 for every other raw value; -90 gives 270.
C21_NormalizedRotation ==
  nout.called =>
    /\ nout.degrees \in {0, 90, 180, 270}
    /\ nout.degrees = IF (nin % 360) \in {0, 90, 180, 270} THEN nin % 360 ELSE 0
    /\ nin = -90 => nout.degrees = 270

C21_Witness == nout.called /\ nin = -90 /\ nout.degrees = 270

-----------------------------------------------------------------------------
\* Rotation detection inside a trim.

\* C22: when the inspector run for the rotation cannot be started, exits
\* non-zero, prints JSON that does not parse, reports no video stream or
\* reports no rotation data, the detected rotation is 0 and the trim goes on
\* to build its arguments; a trim fails at this stage only by refusing a
\* lossless trim of input whose detected rotation is not 0.
C22_RotationBestEffort ==
  [][ tpc = "rotation" =>
        LET report == tloc'.rotation_report
            no_data == report.outcome = "ok" /\ ~report.tag.some /\ report.side = <<>>
        IN /\ (report.outcome \in {"spawn_failed", "exit_nonzero", "bad_json", "no_video"}
               \/ no_data) =>
                 tloc'.rotation_degrees = 0 /\ tpc' = "building"
           /\ tpc' = "failed" =>
                /\ tobs'.result.err = "rotated"
                /\ report.outcome = "ok"
                /\ tloc'.rotation_degrees \in {90, 180, 270}
                /\ tloc'.mode = M_lossless
    ]_vars

\* a trim that finished although the inspector could not be started for the
\* rotation
C22_Witness ==
  /\ tpc = "done"
  /\ tloc.rotation_report.outcome = "spawn_failed"
  /\ tloc.rotation_degrees = 0
  /\ tobs.result.status = "ok"

-----------------------------------------------------------------------------
\* The progress loop of trim_media: the lines the encoder prints on stdout
\* and the cut_progress events emitted for them.

\* lines read in one behaviour
MaxLines == 4

KeyOutTimeUs == <<"o","u","t","_","t","i","m","e","_","u","s","=">>
KeyOutTimeMs == <<"o","u","t","_","t","i","m","e","_","m","s","=">>
KeyProgress == <<"p","r","o","g","r","e","s","s","=">>
\* the lines the encoder may print
ProgressLines ==
  {KeyOutTimeUs \o <<"0">>,
   KeyOutTimeUs \o <<"1">>,
   KeyOutTimeUs \o <<"9","9">>,
   KeyOutTimeUs \o <<" ","1","0","0"," ">>,
   KeyOutTimeUs \o <<"3","0","0">>,
   KeyOutTimeUs \o <<"-","1">>,
   KeyOutTimeUs \o <<"N","/","A">>,
   KeyOutTimeMs \o <<"9","9">>,
   KeyProgress \o <<"e","n","d">>}
\* (duration * 1_000_000.0) as i64, for a trim of 200 microseconds and for
\* one whose duration is zero
DurationsUs == {0, 200}

\* str::strip_prefix
StripPrefix(line, prefix) ==
  IF Len(line) >= Len(prefix) /\ SubSeq(line, 1, Len(prefix)) = prefix
    THEN Some(SubSeq(line, Len(prefix) + 1, Len(line)))
    ELSE [some |-> FALSE, v |-> <<>>]

\* str::parse::<i64>: an optional sign and at least one digit
ParseI64(s) ==
  LET signed == s # <<>> /\ Head(s) \in {"+", "-"}
      digits == IF signed THEN Tail(s) ELSE s
  IN IF digits = <<>> \/ ~AllDigits(digits) THEN None
     ELSE IF signed /\ Head(s) = "-" THEN Some(0 - DigitsValue(digits))
     ELSE Some(DigitsValue(digits))

\* f64::round of 100 * us / duration_us: halves go away from zero
RoundedPercent(us, duration_us) ==
  IF us >= 0 THEN (200 * us + duration_us) \div (2 * duration_us)
  ELSE 0 - ((200 * (0 - us) + duration_us) \div (2 * duration_us))

\* ((us as f64 / duration_us as f64) * 100.0).round().min(100.0) as i32
Percent(us, duration_us) ==
  IF duration_us > 0
    THEN (IF RoundedPercent(us, duration_us) > 100 THEN 100
          ELSE RoundedPercent(us, duration_us))
    ELSE 0

\* the microseconds of a line, when it has the key and a number after it
LineMicros(line) ==
  LET val == StripPrefix(line, KeyOutTimeUs)
  IN IF val.some THEN ParseI64(TrimStr(val.v)) ELSE None

\* a loop that emits for every line with a number
PercentChangedAlways(pct, last_pct) == TRUE

\* if pct != last_pct
PercentChanged(pct, last_pct) == pct # last_pct

progressOthers ==
  <<probeVars, streamVars, trimVars, pipeVars, preflightVars, resolveVars, rotationVars,
    lockVars, threadVars>>

InitProgress ==
  /\ ThreadIdle
  /\ ProbeIdle /\ StreamsIdle /\ TrimIdle
  /\ PipesIdle /\ PreflightIdle /\ ResolveIdle /\ RotationIdle /\ LockIdle
  /\ gin \in DurationsUs
  /\ gpc = "reading"
  /\ gloc = -1
  /\ gobs = [lines |-> 0, line |-> <<>>, events |-> <<>>]

\* one pass of `for line in reader.lines()`
ProgressReadLine ==
  /\ gpc = "reading"
  /\ gobs.lines < MaxLines
  /\ \E line \in ProgressLines :
       LET us == LineMicros(line)
           pct == Percent(us.v, gin)
           emit == us.some /\ PercentChanged(pct, gloc)
       IN /\ gloc' = IF emit THEN pct ELSE gloc
          /\ gobs' = [lines |-> gobs.lines + 1,
                      line |-> line,
                      events |-> IF emit THEN Append(gobs.events, pct) ELSE gobs.events]
  /\ UNCHANGED <<gin, gpc, progressOthers>>

\* the stream ends, or a read fails and the loop breaks
ProgressEnd ==
  /\ gpc = "reading"
  /\ gpc' = "closed"
  /\ UNCHANGED <<gin, gloc, gobs, progressOthers>>

NextProgress ==
  \/ ProgressReadLine
  \/ ProgressEnd

SpecProgress == InitProgress /\ [][NextProgress]_vars

\* C23: a step of the loop emits at most one event; it emits only for a
\* line that has the out_time_us key and a number, and the event carries
\* the percentage of that line, which differs from the one emitted last; so
\* no two events in a row carry the same percent.
C23_EmitOnChange ==
  [][ /\ gobs'.events # gobs.events =>
          /\ Len(gobs'.events) = Len(gobs.events) + 1
          /\ SubSeq(gobs'.events, 1, Len(gobs.events)) = gobs.events
          /\ LineMicros(gobs'.line).some
          /\ gobs'.events[Len(gobs'.events)] = Percent(LineMicros(gobs'.line).v, gin)
          /\ gobs.events # <<>> =>
               gobs'.events[Len(gobs'.events)] # gobs.events[Len(gobs.events)]
      /\ \A i \in 1..(Len(gobs'.events) - 1) : gobs'.events[i] # gobs'.events[i + 1]
    ]_vars

\* 99 and 100 of 200 microseconds both round to 50 percent: one event;
\* a line without a number in between; then 300, capped at 100
C23_Witness ==
  /\ gin = 200
  /\ gobs.lines = 4
  /\ gobs.events = <<50, 100>>
  /\ gobs.line = KeyOutTimeUs \o <<"3","0","0">>

-----------------------------------------------------------------------------
\* The native backend inside probe_duration and probe_tracks.

\* C24: a native probe that fails, or that yields no duration, makes
\* probe_duration go on to the inspector, and a failing native audio probe
\* makes probe_tracks go on to the inspector; a step of the native path
\* never returns an error, and a probe command returns an error other than
\* a validation error only from a step that runs the inspector.
C24_NativeFallsThrough ==
  [][ \A c \in Callers :
        /\ (pc[c] = "pd_native" /\ pc'[c] # pc[c]) =>
             IF media[cfile[c]].mf_duration.ok /\ media[cfile[c]].mf_duration.val.some
               THEN pc'[c] = "idle" /\ result'.ok
               ELSE pc'[c] = "pd_run"
        /\ (pc[c] = "pt_native" /\ pc'[c] # pc[c]) =>
             IF media[cfile[c]].mf_audio.ok
               THEN pc'[c] = "pt_native_store"
               ELSE pc'[c] = "pt_audio"
        /\ (pc[c] = "pt_native_store" /\ pc'[c] # pc[c]) =>
             pc'[c] = "idle" /\ result'.ok
        /\ (pc[c] # "idle" /\ pc'[c] = "idle" /\ ~result'.ok) =>
             pc[c] \in {"pd_run", "pt_audio", "pt_subs", "ps_run", "pm_run"}
    ]_vars

\* on the platform with the native backend, a file the native backend
\* cannot open: probe_duration answered from the inspector
C24_Witness ==
  /\ windows
  /\ result.op = "probe_duration"
  /\ result.ok /\ ~result.cache_hit
  /\ ~media[result.file].mf_duration.ok
  /\ result.spawned = 1
  /\ result.duration.some

-----------------------------------------------------------------------------
\* The cache lock.  Each probe command is a sequence of steps of three
\* kinds: a block under `if let Ok(guard) = probe_cache().lock()` ("locked"),
\* a step that runs the native probe or spawns, reads and waits for the
\* inspector ("io"), and validation ("plain").  after[..] names the steps
\* that can follow; "return" ends the command.

Step(kind, after) == [kind |-> kind, after |-> after]

\* probe_duration, probe_tracks, probe_subtitles, probe_media
ProbeSteps ==
  [pd_lookup       |-> Step("locked", {"return", "pd_validate"}),
   pd_validate     |-> Step("plain",  {"return", "pd_native", "pd_run"}),
   pd_native       |-> Step("io",     {"pd_native_write", "pd_run"}),
   pd_native_write |-> Step("locked", {"return"}),
   pd_run          |-> Step("io",     {"return", "pd_write"}),
   pd_write        |-> Step("locked", {"return"}),
   pt_lookup       |-> Step("locked", {"return", "pt_validate"}),
   pt_validate     |-> Step("plain",  {"return", "pt_native", "pt_audio"}),
   pt_native       |-> Step("io",     {"pt_subs_read", "pt_audio"}),
   pt_subs_read    |-> Step("locked", {"pt_native_write"}),
   pt_native_write |-> Step("locked", {"return"}),
   pt_audio        |-> Step("io",     {"return", "pt_subs"}),
   pt_subs         |-> Step("io",     {"return", "pt_write"}),
   pt_write        |-> Step("locked", {"return"}),
   ps_lookup       |-> Step("locked", {"return", "ps_validate"}),
   ps_validate     |-> Step("plain",  {"return", "ps_run"}),
   ps_run          |-> Step("io",     {"return", "ps_write"}),
   ps_write        |-> Step("locked", {"return"}),
   pm_validate     |-> Step("plain",  {"return", "pm_lookup"}),
   pm_lookup       |-> Step("locked", {"return", "pm_run"}),
   pm_run          |-> Step("io",     {"return", "pm_write"}),
   pm_write        |-> Step("locked", {"return"})]

\* the first step of each command
ProbeEntries == {"pd_lookup", "pt_lookup", "ps_lookup", "pm_validate"}

Idle == [at |-> "return", inside |-> FALSE]
At(step) == [at |-> step, inside |-> FALSE]
Inside(step) == [at |-> step, inside |-> TRUE]

KindAt(c) == IF lpc[c].at = "return" THEN "" ELSE ProbeSteps[lpc[c].at].kind

lockOthers ==
  <<probeVars, streamVars, trimVars, pipeVars, preflightVars, resolveVars,
    rotationVars, progressVars, threadVars>>

InitLock ==
  /\ ThreadIdle
  /\ ProbeIdle /\ StreamsIdle /\ TrimIdle
  /\ PipesIdle /\ PreflightIdle /\ ResolveIdle /\ RotationIdle /\ ProgressIdle
  /\ lholder = ""
  /\ lpc = [c \in Callers |-> Idle]

\* a caller invokes one of the four commands
LockCall(c) ==
  /\ lpc[c] = Idle
  /\ \E first \in ProbeEntries : lpc' = [lpc EXCEPT ![c] = At(first)]
  /\ UNCHANGED <<lholder, lockOthers>>

\* probe_cache().lock() returns the guard: the lock was free
LockAcquire(c) ==
  /\ KindAt(c) = "locked" /\ ~lpc[c].inside
  /\ lholder = ""
  /\ lholder' = c
  /\ lpc' = [lpc EXCEPT ![c] = Inside(lpc[c].at)]
  /\ UNCHANGED lockOthers

\* a block that ends with the guard still alive
LockLeaveHolding(c) ==
  /\ KindAt(c) = "locked" /\ lpc[c].inside
  /\ \E next \in ProbeSteps[lpc[c].at].after : lpc' = [lpc EXCEPT ![c] = At(next)]
  /\ UNCHANGED <<lholder, lockOthers>>

\* the end of the block, or a return inside it: the guard is dropped
LockRelease(c) ==
  /\ KindAt(c) = "locked" /\ lpc[c].inside
  /\ lholder' = ""
  /\ \E next \in ProbeSteps[lpc[c].at].after : lpc' = [lpc EXCEPT ![c] = At(next)]
  /\ UNCHANGED lockOthers

\* the native probe is called, or the inspector is spawned
IoBegin(c) ==
  /\ KindAt(c) = "io" /\ ~lpc[c].inside
  /\ lpc' = [lpc EXCEPT ![c] = Inside(lpc[c].at)]
  /\ UNCHANGED <<lholder, lockOthers>>

\* the native probe returned, or the inspector was read and waited for
IoEnd(c) ==
  /\ KindAt(c) = "io" /\ lpc[c].inside
  /\ \E next \in ProbeSteps[lpc[c].at].after : lpc' = [lpc EXCEPT ![c] = At(next)]
  /\ UNCHANGED <<lholder, lockOthers>>

\* validation and resolution
PlainStep(c) ==
  /\ KindAt(c) = "plain"
  /\ \E next \in ProbeSteps[lpc[c].at].after : lpc' = [lpc EXCEPT ![c] = At(next)]
  /\ UNCHANGED <<lholder, lockOthers>>

NextLock ==
  \/ \E c \in Callers : LockCall(c)
  \/ \E c \in Callers : LockAcquire(c)
  \/ \E c \in Callers : LockRelease(c)
  \/ \E c \in Callers : IoBegin(c)
  \/ \E c \in Callers : IoEnd(c)
  \/ \E c \in Callers : PlainStep(c)

SpecLock == InitLock /\ [][NextLock]_vars

\* C25: the caller holding the cache lock is inside a lookup or update
\* block; no caller holds it while its native probe or its inspector runs,
\* so while one caller is in such a run the lock is free or held by another
\* caller's lookup or update.
C25_NoLockDuringIo ==
  /\ \A c \in Callers :
       lholder = c <=> (KindAt(c) = "locked" /\ lpc[c].inside)
  /\ \A c \in Callers :
       (KindAt(c) = "io" /\ lpc[c].inside) => lholder # c

\* one caller inside an inspector run while the other holds the lock for
\* its cache update
C25_Witness ==
  /\ lpc["c1"] = Inside("pm_run")
  /\ lpc["c2"] = Inside("pd_write")
  /\ lholder = "c2"

-----------------------------------------------------------------------------
\* Threads.  A command declared `fn` runs on the thread that dispatches it,
\* the main thread; one declared `async fn` runs on the async runtime, and
\* what it hands to spawn_blocking runs on the blocking pool.

\* C26: while a trim reads from or waits for its encoder, and while a
\* preflight queries the inspector, the body of the command executes on a
\* worker thread of the blocking pool, not on the thread that dispatched it.
C26_BlockingWorkOffloaded ==
  /\ tpc \in {"draining", "waiting"} => othread = "blocking_pool"
  /\ kpc \in {"prev", "next"} => othread = "blocking_pool"

-----------------------------------------------------------------------------
\* The duration warning of a trim.

\* C27: a trim whose output passed the size check returns a success; the
\* success carries a warning exactly when the re-probe gave a duration that
\* is more than 0.5 s away from out_time - in_time, and none when it is
\* within 0.5 s or the re-probe gave no duration.
C27_WarningBeyondTolerance ==
  [][ (tpc = "reprobing" /\ tpc' # tpc) =>
        LET r == tobs'.result
            requested == tloc.out_seconds.ms - tloc.in_seconds.ms
            known == r.actual.some /\ ~tloc.out_seconds.nan /\ ~tloc.in_seconds.nan
        IN /\ tpc' = "done"
           /\ r.status = "ok"
           /\ r.warning <=>
                (known /\ (r.actual.v - requested > 500 \/ requested - r.actual.v > 500))
           /\ ~r.actual.some => ~r.warning
    ]_vars

\* an output 0.501 s shorter than requested: a success with a warning
C27_Witness ==
  /\ tpc = "done"
  /\ tobs.result.status = "ok"
  /\ tobs.result.warning
  /\ tobs.result.actual = Some(tloc.out_seconds.ms - tloc.in_seconds.ms - 501)

\* ---------------------------------------------------------------------------
\* C28: when the inspector exits non-zero during probe_duration, probe_tracks,
\* probe_subtitles or probe_media, the operation returns an inspection error
\* whose message carries at most the first HeadLimit bytes of stderr, and it
\* returns no probe data.
C28_FailureCarriesStderrHead ==
  (result.err = "nonzero") =>
    /\ ~result.ok
    /\ result.duration = None /\ result.audio = <<>> /\ result.subs = <<>>
    /\ result.err_bytes <= HeadLimit

\* ---------------------------------------------------------------------------
\* the timestamps of the latest answer at or before (after) its target, in
\* tenths of a millisecond; 1e-6 s is less than one unit
C29_AtOrBefore ==
  {t \in kloc.times.times :
     ~kloc.target_seconds.nan /\ t <= 10 * kloc.target_seconds.ms}
C29_AtOrAfter ==
  {t \in kloc.times.times :
     ~kloc.target_seconds.nan /\ t >= 10 * kloc.target_seconds.ms}

\* C29: whatever timestamps the inspector returns for a window, the prev the
\* locator takes from them is at or before the target and is the latest such
\* timestamp, and the next it takes is at or after the target and is the
\* earliest such timestamp (before the rounding to milliseconds).
C29_BracketsTarget ==
  /\ (kloc.side = "prev" /\ kloc.found.some) =>
        /\ kloc.found.v \in C29_AtOrBefore
        /\ \A t \in C29_AtOrBefore : t <= kloc.found.v
  /\ (kloc.side = "next" /\ kloc.found.some) =>
        /\ kloc.found.v \in C29_AtOrAfter
        /\ \A t \in C29_AtOrAfter : kloc.found.v <= t

\* ---------------------------------------------------------------------------
\* the data fields a result of each probe command holds
C30_Fields(op) ==
  CASE op = "probe_duration" -> {"duration"}
    [] op = "probe_tracks" -> {"audio", "subs"}
    [] op = "probe_subtitles" -> {"subs"}
    [] op = "probe_media" -> {"duration", "audio", "subs"}
    [] OTHER -> {}
\* the completeness flag of record e for a field
C30_Flag(e, field) ==
  CASE field = "duration" -> e.has_duration
    [] field = "audio" -> e.has_tracks
    [] field = "subs" -> e.has_subtitles

\* C30: a probe that returns a result marked as a cache hit found a record
\* under the key whose completeness flag was set for every data field the
\* result holds: has_duration for the duration, has_tracks for the audio
\* list, has_subtitles for the subtitle list.
C30_HitFromCompleteFields ==
  [][ (ncalls' # ncalls /\ result'.ok /\ result'.cache_hit) =>
        /\ cache[result'.file].present
        /\ \A field \in C30_Fields(result'.op) :
             C30_Flag(cache[result'.file], field)
    ]_vars

\* ---------------------------------------------------------------------------
\* C31: a probe command that returns an error leaves the cache as it was:
\* the step that returns the error writes nothing, and every step that
\* writes the cache is the last step of its command and returns a success
\* for the file written, so no step of a failing command wrote before it,
\* the audio query of a probe_tracks whose subtitle query fails included.
C31_ErrorLeavesCache ==
  [][ /\ ((ncalls' # ncalls \/ \E c \in Callers : pc[c] # "idle" /\ pc'[c] = "idle")
          /\ ~result'.ok) => cache' = cache
      /\ cache' # cache =>
           \E c \in Callers :
             /\ pc[c] # "idle" /\ pc'[c] = "idle"
             /\ result'.ok /\ result'.file = cfile[c]
             /\ \A f \in Files \ {cfile[c]} : cache'[f] = cache[f]
    ]_vars

\* probe_tracks failed on its subtitle query after its audio query had
\* succeeded, and the file has no record
C31_Witness ==
  /\ result.op = "probe_tracks" /\ ~result.ok /\ result.err = "nonzero"
  /\ result.spawned = 2
  /\ ~cache[result.file].present
  /\ \A c \in Callers : pc[c] = "idle"

\* ---------------------------------------------------------------------------
\* C32: the output path a trim chose is the base name if no file exists
\* there, else the numbered name with the smallest number in 1..MaxNumbered
\* at which no file exists; whatever files existed, none existed at the
\* path chosen, which is the path the encoder is given after -y.
C32_ChosenPathWasFree ==
  tloc.output_path # NoPath =>
    LET n == tloc.output_path.n
    IN /\ n \notin tobs.existing
       /\ 0 \notin tobs.existing => n = 0
       /\ 0 \in tobs.existing =>
            n \in 1..MaxNumbered /\ \A j \in 1..(n - 1) : j \in tobs.existing
       /\ tloc.args # <<>> =>
            tloc.args[Len(tloc.args)] = ArgOutput(tloc.output_path)

C34_EntersTracks(c, f) ==
  /\ pc[c] = "idle" /\ ncalls' # ncalls /\ cfile'[c] = f
  /\ \/ pc'[c] \in {"pt_native", "pt_audio"}
     \/ pc'[c] = "idle" /\ result'.op = "probe_tracks" /\ result'.file = f

\* C34: when the latest command to return was a successful probe_media on
\* a file, a probe_tracks that follows on that file returns from its entry
\* step as a cache hit, having spawned nothing, whatever streams the file
\* has.
C34_TracksHitAfterMedia ==
  [][ \A c \in Callers :
        (/\ result.op = "probe_media" /\ result.ok
         /\ \A d \in Callers : pc[d] = "idle"
         /\ C34_EntersTracks(c, result.file)) =>
          /\ pc'[c] = "idle"
          /\ result'.ok /\ result'.cache_hit /\ result'.spawned = 0
    ]_vars

\* ---------------------------------------------------------------------------
\* the inspector processes a command has spawned when it is at position p
C35_SpawnedAt(p) ==
  CASE p \in {"pd_store", "ps_store", "pm_store", "pt_subs"} -> 1
    [] p = "pt_store" -> 2
    [] OTHER -> 0
\* the positions at which the inspector is run, and the position after a
\* run that succeeded
C35_Runs == {"pd_run", "pt_audio", "pt_subs", "ps_run", "pm_run"}
C35_AfterRun(p) ==
  CASE p = "pd_run" -> "pd_store"
    [] p = "pt_audio" -> "pt_subs"
    [] p = "pt_subs" -> "pt_store"
    [] p = "ps_run" -> "ps_store"
    [] p = "pm_run" -> "pm_store"

\* C35: a probe command that finds its completeness flag set in the record
\* of the file (any record, for probe_media) returns from its entry step
\* having spawned nothing; a command that misses passes each of its run
\* positions once, so probe_duration, probe_subtitles and probe_media spawn
\* the inspector at most once and probe_tracks at most twice; a run that
\* fails returns its error at once, and no later step spawns again.
C35_SpawnsBounded ==
  [][ \A c \in Callers :
        /\ spawns'[c] = C35_SpawnedAt(pc'[c])
        /\ (pc[c] = "idle" /\ pc'[c] # "idle") =>
             LET e == cache[cfile'[c]]
             IN /\ pc'[c] \in {"pd_native", "pd_run"} => ~(e.present /\ e.has_duration)
                /\ pc'[c] \in {"pt_native", "pt_audio"} => ~(e.present /\ e.has_tracks)
                /\ pc'[c] = "ps_run" => ~(e.present /\ e.has_subtitles)
                /\ pc'[c] = "pm_run" => ~e.present
        /\ (pc[c] = "idle" /\ ncalls' # ncalls /\ pc'[c] = "idle" /\ cfile'[c] # cfile[c]) =>
             result'.spawned = 0
        /\ (pc[c] \in C35_Runs /\ pc'[c] # pc[c]) =>
             \/ pc'[c] = C35_AfterRun(pc[c])
             \/ /\ pc'[c] = "idle" /\ ~result'.ok
                /\ result'.spawned <= C35_SpawnedAt(pc[c]) + 1
        /\ (pc[c] # "idle" /\ pc'[c] = "idle") =>
             result'.spawned <= IF result'.op = "probe_tracks" THEN 2 ELSE 1
        /\ (pc'[c] = "idle" /\ result' # result /\ result'.cache_hit) =>
             result'.spawned = 0
    ]_vars

\* a probe_tracks that missed the cache, ran the inspector twice and stored
\* its lists
C35_Witness ==
  /\ result.op = "probe_tracks" /\ result.ok /\ ~result.cache_hit
  /\ result.spawned = 2
  /\ cache[result.file].has_tracks
  /\ \A c \in Callers : pc[c] = "idle" /\ spawns[c] = 0

\* ---------------------------------------------------------------------------
\* C36: after every step, a record whose has_duration flag is set holds a
\* present duration; and when the inspector exited with success but its
\* output holds no number, probe_duration and probe_media return a success
\* with an absent duration and leave the record's has_duration flag unset.
C36_FlagMeansDuration ==
  [][ /\ \A f \in Files :
           (cache'[f].present /\ cache'[f].has_duration) => cache'[f].duration_seconds.some
      /\ \A c \in Callers :
           (pc[c] \in {"pd_store", "pm_store"} /\ pc'[c] = "idle"
            /\ ~media[cfile[c]].duration.some) =>
             /\ result'.ok /\ ~result'.cache_hit
             /\ ~result'.duration.some
             /\ cache'[cfile[c]].present
             /\ ~cache'[cfile[c]].has_duration
    ]_vars

\* probe_duration ran the inspector on a file whose duration it prints as
\* N/A: a success without a duration, a record without the flag
C36_Witness ==
  /\ result.op = "probe_duration" /\ result.ok /\ ~result.cache_hit
  /\ result.spawned = 1
  /\ ~result.duration.some
  /\ cache[result.file].present
  /\ ~cache[result.file].has_duration
  /\ ~cache[result.file].duration_seconds.some

\* ---------------------------------------------------------------------------
\* the searches of a finished preflight whose every query failed: three
\* queries on each side of target t, nothing found
C37_SearchedInVain(t) ==
  /\ Len(C17_SideQueries(t, "prev")) = 3
  /\ Len(C17_SideQueries(t, "next")) = 3
  /\ ~C17_Reported(t, "prev").some
  /\ ~C17_Reported(t, "next").some

\* C37 as stated: a preflight past validation never fails, and when every
\* keyframe query fails it returns a success whose four keyframes and two
\* shifts are absent, after three queries on each side of both targets.
C37_AllAbsentWhenQueriesFail ==
  /\ (kpc = "failed") => kobs.queries = <<>>
  /\ (kpc = "done" /\ kin.inspector = "unavailable") =>
       /\ kobs.result.status = "ok"
       /\ C37_SearchedInVain("in") /\ C37_SearchedInVain("out")
       /\ ~kobs.result.start_shift.some /\ ~kobs.result.end_shift.some

\* C37, amended: a preflight past validation never fails, whatever the
\* inspector does; when every keyframe query fails it returns a success
\* whose out-point keyframes and end shift are absent after three queries
\* on each side, and whose in-point keyframes and start shift are absent
\* after three queries on each side unless in_time is zero or less, when
\* they are reported as 0 without a query.
C37_AbsentWhenQueriesFail ==
  /\ (kpc = "failed") => kobs.queries = <<>>
  /\ (kpc = "done" /\ kin.inspector = "unavailable") =>
       /\ kobs.result.status = "ok"
       /\ C37_SearchedInVain("out")
       /\ ~kobs.result.end_shift.some
       /\ IF InPointAtStart(kloc.in_seconds)
            THEN /\ C17_SideQueries("in", "prev") = <<>>
                 /\ C17_SideQueries("in", "next") = <<>>
                 /\ kobs.result.nearest = Some(0) /\ kobs.result.next = Some(0)
                 /\ kobs.result.start_shift = Some(0)
            ELSE /\ C37_SearchedInVain("in")
                 /\ ~kobs.result.start_shift.some

\* in_time 5 s, no inspector: twelve failed queries, a success with
\* nothing in it
C37_Witness ==
  /\ kpc = "done"
  /\ kin.inspector = "unavailable"
  /\ kloc.in_seconds = Secs(5000)
  /\ Len(kobs.queries) = 12
  /\ kobs.result.status = "ok"
  /\ ~kobs.result.nearest.some /\ ~kobs.result.out_next.some
  /\ ~kobs.result.start_shift.some /\ ~kobs.result.end_shift.some

\* ---------------------------------------------------------------------------
\* C38: every percentage carried by a progress event lies in 0..100,
\* whatever elapsed output time the encoder prints, beyond the requested
\* duration or negative.
C38_PercentInRange ==
  \A i \in 1..Len(gobs.events) : gobs.events[i] \in 0..100

\* ---------------------------------------------------------------------------
\* C39: in exact mode a detected rotation of 90, 180 or 270 puts into the
\* encoder's arguments, together, -noautorotate before -i, -vf with the
\* filter of the table (90: transpose=2, 180: hflip,vflip, 270:
\* transpose=1) and -metadata:s:v:0 rotate=0; a rotation of 0 puts none of
\* the three.
C39_ExactRotationArgs ==
  (ArgsBuilt /\ tloc.mode = M_exact) =>
    LET d == tloc.rotation_degrees
        args == tloc.args
    IN /\ d \in {0, 90, 180, 270}
       /\ d # 0 =>
            /\ Count(args, Lit("-noautorotate")) = 1
            /\ IndexOf(args, Lit("-noautorotate")) < IndexOf(args, Lit("-i"))
            /\ Count(args, Lit("-vf")) = 1
            /\ Followed(args, Lit("-vf"),
                        Lit(CASE d = 90 -> "transpose=2"
                              [] d = 180 -> "hflip,vflip"
                              [] d = 270 -> "transpose=1"))
            /\ Count(args, Lit("-metadata:s:v:0")) = 1
            /\ Followed(args, Lit("-metadata:s:v:0"), RotateTag(0))
       /\ d = 0 =>
            /\ ~Has(args, Lit("-noautorotate"))
            /\ ~Has(args, Lit("-vf"))
            /\ ~Has(args, Lit("-metadata:s:v:0"))

\* an exact trim of a video turned by 270 degrees
C39_Witness ==
  /\ ArgsBuilt /\ tloc.mode = M_exact
  /\ tloc.rotation_degrees = 270
  /\ Followed(tloc.args, Lit("-noautorotate"), Lit("-i"))
  /\ Followed(tloc.args, Lit("-vf"), Lit("transpose=1"))
  /\ Followed(tloc.args, Lit("-metadata:s:v:0"), RotateTag(0))

====
